---- MODULE Spec2Model ----
(***************************************************************************)
(* Model of the point-cloud-to-grid pipeline of awi_als_toolbox:           *)
(* AlsDEM.create() of _grid.py (and its older sibling in demgen.py):       *)
(* _proj, _griddata, _grid_statistics, _gap_filter, _update_metadata, and  *)
(* the reader get_variable.                                                *)
(*                                                                         *)
(* Numbers.  All planar coordinates are integers in grid units, with       *)
(* UnitsPerMeter units to the metre, so that "rounding to full metres" is  *)
(* a real floor/ceil.  Arithmetic is exact: the model says nothing about   *)
(* floating-point round-off.  A float that is NaN is the empty tuple <<>>, *)
(* a finite float v is <<v>>, and a gridded value is the rational          *)
(* <<num, den>> with den > 0.                                              *)
(***************************************************************************)
EXTENDS Integers, Sequences, FiniteSets, TLC

\* ---------------------------------------------------------------- bounds

\* Grid units per metre (a resolution of 1 unit is 0.5 m).
UnitsPerMeter == 2
\* Largest grid resolution tried, in grid units.
MaxRes == 3
\* Largest window size of the maximum filter tried.
MaxFilterSize == 3
\* Largest longitude / latitude tick of a sample.
MaxCoord == 3

\* ---------------------------------------------------------------- floats

NaN == <<>>
IsNaN(v) == v = NaN
IsFinite(v) == v # NaN
Fin(v) == <<v>>
Val(v) == v[1]

Max2(a, b) == IF a >= b THEN a ELSE b

\* floor(a / b) and ceil(a / b) for b > 0
FloorDiv(a, b) == a \div b
CeilDiv(a, b) == -((-a) \div b)

RECURSIVE SumSeq(_)
SumSeq(s) == IF s = <<>> THEN 0 ELSE Head(s) + SumSeq(Tail(s))

\* The finite entries of an array, as a set of indices.
FiniteIdx(a) == {i \in DOMAIN a : IsFinite(a[i])}

\* np.nanmin / np.nanmax of an array with at least one finite entry.
NanMin(a) == CHOOSE v \in {Val(a[i]) : i \in FiniteIdx(a)} :
                 \A i \in FiniteIdx(a) : v <= Val(a[i])
NanMax(a) == CHOOSE v \in {Val(a[i]) : i \in FiniteIdx(a)} :
                 \A i \in FiniteIdx(a) : v >= Val(a[i])

\* The k-th smallest (1-based) of the finite entries of a.
KthSmallest(a, k) ==
    CHOOSE v \in {Val(a[i]) : i \in FiniteIdx(a)} :
        /\ Cardinality({i \in FiniteIdx(a) : Val(a[i]) < v}) < k
        /\ Cardinality({i \in FiniteIdx(a) : Val(a[i]) <= v}) >= k

\* Twice np.nanmedian(a): the middle finite entry, or the mean of the two
\* middle ones; NaN when no entry is finite.
NanMedian2(a) ==
    LET n == Cardinality(FiniteIdx(a))
    IN  IF n = 0 THEN NaN
        ELSE IF n % 2 = 1 THEN Fin(2 * KthSmallest(a, (n + 1) \div 2))
        ELSE Fin(KthSmallest(a, n \div 2) + KthSmallest(a, n \div 2 + 1))

\* ---------------------------------------------------------------- geometry

\* Twice the signed area of the triangle a, b, c (points are <<x, y>>).
Cross(a, b, c) == (b[1] - a[1]) * (c[2] - a[2]) - (b[2] - a[2]) * (c[1] - a[1])

Sign(v) == IF v > 0 THEN 1 ELSE IF v < 0 THEN -1 ELSE 0

\* The in-circle determinant of a, b, c against d; positive when d lies
\* strictly inside the circle through a, b, c taken counter-clockwise.
InCircleDet(a, b, c, d) ==
    LET ax == a[1] - d[1]  ay == a[2] - d[2]
        bx == b[1] - d[1]  by == b[2] - d[2]
        cx == c[1] - d[1]  cy == c[2] - d[2]
        a2 == ax * ax + ay * ay
        b2 == bx * bx + by * by
        c2 == cx * cx + cy * cy
    IN  ax * (by * c2 - b2 * cy) - ay * (bx * c2 - b2 * cx)
          + a2 * (bx * cy - by * cx)

StrictlyInCircle(a, b, c, d) == Sign(Cross(a, b, c)) * InCircleDet(a, b, c, d) > 0

\* The three corners of a triangle given as a set of three points.
Corner(t, k) ==
    LET a == CHOOSE p \in t : TRUE
        b == CHOOSE p \in t \ {a} : TRUE
        c == CHOOSE p \in t \ {a, b} : TRUE
    IN  <<a, b, c>>[k]

\* The triangles a Delaunay triangulation of the point set P may use: three
\* points not on a line whose circumcircle holds no point of P strictly inside.
DelaunayCandidates(P) ==
    {t \in SUBSET P :
        /\ Cardinality(t) = 3
        /\ Cross(Corner(t, 1), Corner(t, 2), Corner(t, 3)) # 0
        /\ \A d \in P \ t :
             ~StrictlyInCircle(Corner(t, 1), Corner(t, 2), Corner(t, 3), d)}

Edges(t) == {e \in SUBSET t : Cardinality(e) = 2}

EdgeSide(e, c) ==
    LET a == CHOOSE p \in e : TRUE
        b == CHOOSE p \in e \ {a} : TRUE
    IN  Sign(Cross(a, b, c))

\* An edge of the convex hull of P: all of P lies on one side of its line.
IsHullEdge(e, P) ==
    \/ \A c \in P : EdgeSide(e, c) >= 0
    \/ \A c \in P : EdgeSide(e, c) <= 0

\* T triangulates the convex hull of P: every hull edge of a triangle of T
\* belongs to that triangle alone, every other edge to exactly two triangles
\* of T, lying on opposite sides of it.
IsTriangulation(T, P) ==
    /\ T # {}
    /\ \A t \in T : \A e \in Edges(t) :
         LET at == {u \in T : e \subseteq u}
         IN  IF IsHullEdge(e, P)
             THEN at = {t}
             ELSE /\ Cardinality(at) = 2
                  /\ \A u \in at \ {t} :
                       EdgeSide(e, CHOOSE p \in u \ e : TRUE)
                         * EdgeSide(e, CHOOSE p \in t \ e : TRUE) < 0

\* Every Delaunay triangulation of P (more than one when four or more points
\* lie on one circle); empty when P has fewer than three points or all of P
\* lies on one line, where qhull raises QhullError.
DelaunayTriangulations(P) ==
    {T \in SUBSET DelaunayCandidates(P) : IsTriangulation(T, P)}

\* q lies in the closed triangle with corners a, b, c.
InTriangle(a, b, c, q) ==
    LET s == Sign(Cross(a, b, c))
    IN  /\ s * Cross(a, b, q) >= 0
        /\ s * Cross(b, c, q) >= 0
        /\ s * Cross(c, a, q) >= 0

\* ---------------------------------------------------------------- projection

\* pyproj.Proj is a library outside the repository.  It is represented by
\* the tangent-plane map about the projection centre: the centre maps to the
\* origin and one degree tick to two grid units.  Longitudes and latitudes
\* are passed doubled, so that a centre that is the mean of two ticks stays
\* an integer.
ProjForward(lon2, centre2) == lon2 - centre2

\* AlsDEM.get_swath_lonlat_center: the doubled (lon_0, lat_0).
SwathLonLatCenter2(lon, lat) == <<NanMedian2(lon), NanMedian2(lat)>>

\* is_nan = np.logical_or(np.isnan(lon), np.isnan(lat))
IsNanSample(lon, lat, i) == IsNaN(lon[i]) \/ IsNaN(lat[i])

\* A guard on the restore that never lets it run.
RestoreNanMaskSkipped(n_axes) == n_axes > 2

\* "if len(nan_mask) > 0": nan_mask is the pair of index arrays np.where
\* returns, so the test is on the number of array axes, not of NaN samples.
RestoreNanMask(n_axes) == n_axes > 0

\* One projected coordinate of sample i: the NaN samples are filled with the
\* centre, every sample is projected, and the NaN mask is restored.
ProjCoord(a, lon, lat, centre2, i) ==
    LET filled2 == IF IsNanSample(lon, lat, i) THEN Fin(centre2)
                   ELSE IF IsNaN(a[i]) THEN NaN ELSE Fin(2 * Val(a[i]))
        projected == IF IsNaN(filled2) THEN NaN
                     ELSE Fin(ProjForward(Val(filled2), centre2))
    IN  IF RestoreNanMask(2) /\ IsNanSample(lon, lat, i) THEN NaN ELSE projected

\* ---------------------------------------------------------------- grid

\* An arange whose length is rounded down.
ARangeFloor(start, stop, step) ==
    [k \in 1..Max2(FloorDiv(stop - start, step), 0) |-> start + (k - 1) * step]

\* np.arange(start, stop, step): ceil((stop - start) / step) values.
ARange(start, stop, step) ==
    [k \in 1..Max2(CeilDiv(stop - start, step), 0) |-> start + (k - 1) * step]

\* pad = max(frac * width, frac * height), as a fraction num / den of a unit.
PadNum(frac, width, height) == Max2(frac[1] * width, frac[1] * height)

\* np.floor(vmin - pad) and np.ceil(vmax + pad), to full metres, in units.
ExtentMin(vmin, padnum, padden) ==
    UnitsPerMeter * FloorDiv(vmin * padden - padnum, padden * UnitsPerMeter)
ExtentMax(vmax, padnum, padden) ==
    UnitsPerMeter * CeilDiv(vmax * padden + padnum, padden * UnitsPerMeter)

\* The coordinate vector built as np.arange(vmin, vmax, res), without the
\* extra resolution step on the upper bound.
GridCoordsOpenEnd(a, other, frac, res) ==
    LET width  == NanMax(a) - NanMin(a)
        height == NanMax(other) - NanMin(other)
        padnum == PadNum(frac, width, height)
    IN  ARange(ExtentMin(NanMin(a), padnum, frac[2]),
               ExtentMax(NanMax(a), padnum, frac[2]), res)

\* self.xc (and self.yc) of _griddata for the coordinates a.
GridCoords(a, other, frac, res) ==
    LET width  == NanMax(a) - NanMin(a)
        height == NanMax(other) - NanMin(other)
        padnum == PadNum(frac, width, height)
    IN  ARange(ExtentMin(NanMin(a), padnum, frac[2]),
               ExtentMax(NanMax(a), padnum, frac[2]) + res, res)

\* self.nonan: the samples with a finite x or a finite y, in array order.
NonNan(x, y) ==
    SelectSeq([i \in DOMAIN x |-> i], LAMBDA i : IsFinite(x[i]) \/ IsFinite(y[i]))

\* ---------------------------------------------------------------- interpolation

RECURSIVE SetToSeq(_)
SetToSeq(S) ==
    IF S = {} THEN <<>>
    ELSE LET e == CHOOSE v \in S : TRUE IN <<e>> \o SetToSeq(S \ {e})

\* The points handed to qhull.Delaunay: x[nonan], y[nonan], in that order.
TriPoints(x, y) ==
    LET nn == NonNan(x, y) IN [k \in DOMAIN nn |-> <<Val(x[nn[k]]), Val(y[nn[k]])>>]

\* What qhull.Delaunay(points) may return.  tri.simplices is a sequence of
\* vertex triples indexing points; qhull fixes neither the order of the
\* simplices (only which one is last matters below) nor which of several
\* samples at one position becomes the vertex.
Delaunay(points) ==
    LET P == {points[k] : k \in DOMAIN points}
        Reps == {r \in [P -> DOMAIN points] : \A p \in P : points[r[p]] = p}
        Simplex(t, r) == <<r[Corner(t, 1)], r[Corner(t, 2)], r[Corner(t, 3)]>>
    IN  {[points |-> points, simplices |-> SetToSeq(S \ {l}) \o <<l>>] :
            <<S, l>> \in UNION {
                {<<{Simplex(t, r) : t \in T}, Simplex(tl, r)>> : tl \in T} :
                    <<T, r>> \in DelaunayTriangulations(P) \X Reps}}

\* tri.find_simplex(q): the 0-based index of a simplex whose closed triangle
\* holds q, or -1 when q is outside the convex hull.  For a point on an edge
\* shared by two simplices either may be returned; both interpolate alike.
FindSimplex(tri, q) ==
    LET hit == {n \in DOMAIN tri.simplices :
                   InTriangle(tri.points[tri.simplices[n][1]],
                              tri.points[tri.simplices[n][2]],
                              tri.points[tri.simplices[n][3]], q)}
    IN  IF hit = {} THEN -1 ELSE (CHOOSE n \in hit : \A o \in hit : n <= o) - 1

\* np.take(a, index, axis=0) for one index: a negative index counts from
\* the end, so -1 takes the last entry.
Take(a, index) == IF index < 0 THEN a[Len(a) + 1 + index] ELSE a[index + 1]

\* The weights left as computed.
FilterNegativeOmitted(w) == w

\* weights[np.where(np.any(weights < 0, axis=1)), :] = nan
FilterNegative(w) ==
    IF w[1] < 0 \/ w[2] < 0 \/ w[3] < 0 THEN NaN ELSE w

\* The barycentric weights of q in the simplex with the given vertices, as
\* <<n1, n2, n3, den>> for the weights n1/den, n2/den, n3/den (den > 0), from
\* the simplex's affine transform: bary = Tinv . (q - r), r the third vertex,
\* and the third weight 1 - sum(bary).  NaN when a weight is negative.
Weights(tri, vertices, q) ==
    LET p1 == tri.points[vertices[1]]
        p2 == tri.points[vertices[2]]
        r  == tri.points[vertices[3]]
        det == (p1[1] - r[1]) * (p2[2] - r[2]) - (p2[1] - r[1]) * (p1[2] - r[2])
        sg == Sign(det)
        b1 == sg * ((p2[2] - r[2]) * (q[1] - r[1]) - (p2[1] - r[1]) * (q[2] - r[2]))
        b2 == sg * ((p1[1] - r[1]) * (q[2] - r[2]) - (p1[2] - r[2]) * (q[1] - r[1]))
        den == sg * det
    IN  FilterNegative(<<b1, b2, den - b1 - b2, den>>)

\* variable.flatten(): the samples not reduced to those triangulated.
CompressOmitted(variable, nonan) == variable

\* variable[self.nonan].flatten()
Compress(variable, nonan) == [k \in DOMAIN nonan |-> variable[nonan[k]]]

\* One node of np.einsum('nj,nj->n', np.take(values, vertices), weights).
Interpolate(values, vertices, w) ==
    IF IsNaN(w) \/ \E k \in 1..3 : IsNaN(values[vertices[k]]) THEN NaN
    ELSE <<SumSeq([k \in 1..3 |-> w[k] * Val(values[vertices[k]])]), w[4]>>

\* The gridded variable: one value per node of the mesh (rows are yc).
GridVariable(tri, values, xc, yc) ==
    [j \in DOMAIN yc |-> [i \in DOMAIN xc |->
        LET q == <<xc[i], yc[j]>>
            vertices == Take(tri.simplices, FindSimplex(tri, q))
        IN  Interpolate(values, vertices, Weights(tri, vertices, q))]]

\* ---------------------------------------------------------------- occupancy

\* np.linspace(start, stop, num)[k] (k 0-based), with all values doubled.
LinSpace2(start2, stop2, num, k) == start2 + (k * (stop2 - start2)) \div (num - 1)

\* Bin edges that start at the first node instead of half a cell before it.
BinEdges2AtNodes(c, res) ==
    [k \in 1..(Len(c) + 1) |->
        LinSpace2(2 * c[1], 2 * c[Len(c)] + 2 * res, Len(c) + 1, k - 1)]

\* The doubled bin edges of _grid_statistics for the node coordinates c:
\* np.linspace(c[0] - res/2, c[-1] + res/2, len(c) + 1).
BinEdges2(c, res) ==
    [k \in 1..(Len(c) + 1) |->
        LinSpace2(2 * c[1] - res, 2 * c[Len(c)] + res, Len(c) + 1, k - 1)]

\* The bin of np.histogram for the value v: bin k holds edges[k] <= v <
\* edges[k+1], the last bin also its right edge; 0 when v is outside.
BinOf(edges2, v) ==
    LET n == Len(edges2) - 1
    IN  IF 2 * v < edges2[1] \/ 2 * v > edges2[n + 1] THEN 0
        ELSE IF 2 * v = edges2[n + 1] THEN n
        ELSE CHOOSE k \in 1..n : edges2[k] <= 2 * v /\ 2 * v < edges2[k + 1]

\* np.histogram2d(x[nonan], y[nonan], bins=[xedges, yedges]) transposed: the
\* number of samples per grid cell, rows along yc.
Histogram2dT(x, y, xedges2, yedges2) ==
    LET nn == NonNan(x, y)
    IN  [j \in 1..(Len(yedges2) - 1) |-> [i \in 1..(Len(xedges2) - 1) |->
            Cardinality({k \in DOMAIN nn :
                /\ BinOf(xedges2, Val(x[nn[k]])) = i
                /\ BinOf(yedges2, Val(y[nn[k]])) = j})]]

\* ---------------------------------------------------------------- gap filter

\* The boundary modes of scipy.ndimage: the 0-based index read for the index
\* k outside 0..n-1, or -1 for the constant value (cval = 0).
ExtendIndex(k, n, mode) ==
    IF 0 <= k /\ k < n THEN k
    ELSE CASE mode = "nearest"  -> IF k < 0 THEN 0 ELSE n - 1
           [] mode = "wrap"     -> k % n
           [] mode = "reflect"  -> LET m == k % (2 * n)
                                   IN IF m >= n THEN 2 * n - 1 - m ELSE m
           [] mode = "mirror"   -> IF n = 1 THEN 0
                                   ELSE LET m == k % (2 * n - 2)
                                        IN IF m >= n THEN 2 * n - 2 - m ELSE m
           [] mode = "constant" -> -1

\* The offsets of a filter window of the given size about its centre.
Window(size) == (-(size \div 2))..(size - 1 - size \div 2)

\* scipy.ndimage.maximum_filter(mask, size=size, mode=mode) of a boolean
\* array: a cell is True when any cell of its window is.
MaximumFilter(mask, size, mode) ==
    LET ny == Len(mask)
        nx == Len(mask[1])
        At(j, i) == LET ej == ExtendIndex(j - 1, ny, mode)
                        ei == ExtendIndex(i - 1, nx, mode)
                    IN  IF ej < 0 \/ ei < 0 THEN FALSE ELSE mask[ej + 1][ei + 1]
    IN  [j \in 1..ny |-> [i \in 1..nx |->
            \E dj \in Window(size), di \in Window(size) : At(j + dj, i + di)]]

Invert(mask) == [j \in DOMAIN mask |-> [i \in DOMAIN mask[j] |-> ~mask[j][i]]]

\* ---------------------------------------------------------------- state

VARIABLES
    impl,              \* "grid": AlsDEM of _grid.py; "demgen": AlsDEM of demgen.py
    als,               \* the point cloud: per-sample arrays, flattened line by line
    cfg,               \* the AlsDEMCfg
    pc,                \* "idle", or the step of create() that runs next
    outcome,           \* how the last create() ended: "none", "running", "returned" or the error raised
    p,                 \* self.p: the doubled projection centre, <<>> before _proj
    x, y,              \* self.x, self.y: projected samples, <<>> for None
    xc, yc,            \* the grid coordinate vectors (lrx, lry in demgen.py), <<>> when unset
    grid_var,          \* self._grid_var (dem_z in demgen.py): name -> gridded array
    n_shots,           \* self._n_shots (rzhist in demgen.py), <<>> for None
    dem_mask,          \* self._dem_mask (dem_mask in demgen.py), <<>> for None
    processing_level,  \* self.processing_level ("n/a" in demgen.py, which has none)
    metadata,          \* the attributes _update_metadata sets
    ret                \* what the last get_variable call returned

\* The state of one AlsDEM and of the calls made on it.
demVars == <<impl, als, cfg, pc, outcome, p, x, y, xc, yc, grid_var, n_shots,
             dem_mask, processing_level, metadata, ret>>

VARIABLES
    align_in,          \* self.x, self.y (doubled) and their shape when _align is called
    align_x, align_y,  \* self.x, self.y (doubled) of the DEM that _align works on
    align_parameters,  \* self._align_parameters, <<>> while unset
    align_pc           \* "projected" before the call of _align, "aligned" after it

alignVars == <<align_in, align_x, align_y, align_parameters, align_pc>>

VARIABLES
    preset_call,       \* the arguments of a call AlsDEMCfg.preset(mode, **kwargs)
    preset_ret         \* what the call returned or raised, <<>> before it

presetVars == <<preset_call, preset_ret>>

VARIABLES
    values_mode,       \* what nc.xc.values hands out: "view", "copy" or "readonly"
    grids,             \* ALSGridCollection.grids: the ALSL4Grid tiles
    collection_res,    \* ALSGridCollection.res
    ignore_list,       \* ALSGridCollection.ignore_list
    ref,               \* ALSGridCollection.ref, <<>> for None
    merged,            \* the ALSMergedGrid in use, <<>> before one is built
    added,             \* the add_grid calls that wrote into merged, in order
    last_op            \* the last call made, with what it returned or raised

mosaicVars == <<values_mode, grids, collection_res, ignore_list, ref, merged, added, last_op>>

VARIABLES
    colls,             \* the ALSGridCollection instances alive, in the order constructed
    ignore_lists,      \* the list objects that serve as an ignore_list; the first one is
                       \* the default value of the parameter of ALSGridCollection.__init__
    coll_op            \* the last call made on an instance, with what it returned or raised

collectionVars == <<colls, ignore_lists, coll_op>>

VARIABLES
    ow_call,           \* the call of open_water_detection: its inputs and how far it is
    ow_pool,           \* the tasks not yet taken and the workers that run the segments
    export_file        \* the lines of the common csv file, <<>> while there is no file

freeboardVars == <<ow_call, ow_pool, export_file>>

VARIABLES
    als_file           \* an AirborneLaserScannerFile: the line timestamps of the file and
                       \* the last call of get_data with what it returned or raised

readerVars == <<als_file>>

\* The state of the parts that are specified after the mosaic.
restVars == <<collectionVars, freeboardVars, readerVars>>

vars == <<demVars, alignVars, presetVars, mosaicVars, restVars>>

None == <<>>

\* ---------------------------------------------------------------- inputs

\* Scan lines and shots per line of the point cloud.
Shape == <<2, 2>>
NSamples == Shape[1] * Shape[2]

\* The (longitude, latitude) a sample may have, in ticks; either may be NaN.
LonLatVals ==
    {<<Fin(0), Fin(0)>>, <<Fin(MaxCoord), Fin(0)>>, <<Fin(0), Fin(MaxCoord)>>,
     <<Fin(1), Fin(1)>>, <<NaN, Fin(0)>>, <<Fin(MaxCoord), NaN>>}

\* The elevation of the point cloud is the plane z = 2x + 3y over the
\* projected coordinates; a sample without position carries a stray value.
\* The amplitude is not a plane.
MakeAls(ll) ==
    LET lon == [i \in 1..NSamples |-> ll[i][1]]
        lat == [i \in 1..NSamples |-> ll[i][2]]
        c2  == SwathLonLatCenter2(lon, lat)
    IN  [lon |-> lon, lat |-> lat,
         elevation |-> [i \in 1..NSamples |->
            IF IsNanSample(lon, lat, i) THEN Fin(-(10 + i))
            ELSE Fin(2 * ProjForward(2 * Val(lon[i]), Val(c2[1]))
                      + 3 * ProjForward(2 * Val(lat[i]), Val(c2[2])))],
         amplitude |-> [i \in 1..NSamples |-> Fin(i * i)]]

\* Every point cloud of the shape, and the few used to vary the configuration.
AllClouds == {MakeAls(ll) : ll \in [1..NSamples -> LonLatVals]}
FewClouds ==
    {MakeAls(ll) : ll \in {f \in [1..NSamples -> LonLatVals] :
        /\ f[1] = <<Fin(0), Fin(0)>>
        /\ f[2] = <<Fin(MaxCoord), Fin(0)>>
        /\ f[3] = <<Fin(0), Fin(MaxCoord)>>}}

\* als.grid_variable_names
GridVariableNames == <<"elevation", "amplitude">>

FilterModes == {"nearest", "reflect", "mirror", "wrap", "constant"}

\* cfg.gap_filter: a dictionary with "algorithm" and the keywords of the
\* filter, or None (what AlsDEMCfg of _grid.py defaults to).
NoFilter == [algorithm |-> "none", size |-> 0, mode |-> "n/a"]
UnsetFilter == [algorithm |-> "(gap_filter is None)", size |-> 0, mode |-> "n/a"]
DefaultFilter == [algorithm |-> "maximum_filter", size |-> 3, mode |-> "nearest"]
GapFilters ==
    {NoFilter, UnsetFilter, [algorithm |-> "median_filter", size |-> 0, mode |-> "n/a"]}
    \cup {[algorithm |-> "maximum_filter", size |-> sz, mode |-> m] :
            sz \in 1..MaxFilterSize, m \in FilterModes}

\* cfg.griddata: the algorithm name itself, or the dictionary
\* dict(algorithm="scipy.griddata", keyw=...) that both AlsDEMCfg default to.
GriddataSettings == {"scipy.griddata", "dict"}

\* grid_pad_fraction as <<numerator, denominator>>: 0 and 0.05.
PadFractions == {<<0, 1>>, <<1, 20>>}

MakeCfg(res, pad, gd, gf) ==
    [resolution |-> res, grid_pad_fraction |-> pad, griddata |-> gd, gap_filter |-> gf]

\* The setting of cfg.griddata that the implementation's _griddata accepts.
AcceptedGriddata(im) == IF im = "grid" THEN "scipy.griddata" ELSE "dict"

\* The parts of the state a specification does not exercise: no _align call
\* is under way, no preset was asked for, no tile collection exists.
AlignUnused ==
    /\ align_in = None /\ align_x = None /\ align_y = None
    /\ align_parameters = None /\ align_pc = "unused"
PresetUnused == preset_call = None /\ preset_ret = None
MosaicUnused ==
    /\ values_mode = "unused" /\ grids = <<>> /\ collection_res = None /\ ignore_list = <<>> /\ ref = None
    /\ merged = None /\ added = <<>> /\ last_op = None
CollectionUnused == colls = <<>> /\ ignore_lists = <<>> /\ coll_op = None
FreeboardUnused == ow_call = None /\ ow_pool = None /\ export_file = None
ReaderUnused == als_file = None
RestUnused == CollectionUnused /\ FreeboardUnused /\ ReaderUnused

\* The gap filters an AlsDEMCfg of the implementation can hold: AlsDEMCfg of
\* demgen.py replaces None by the default filter.
GapFiltersOf(im) == IF im = "grid" THEN GapFilters ELSE GapFilters \ {UnsetFilter}

\* Every point cloud gridded by _grid.py under the default gap filter, and a
\* few point clouds under every configuration of both implementations.
Init ==
    /\ \/ /\ impl = "grid"
          /\ als \in AllClouds
          /\ cfg \in {MakeCfg(res, pad, AcceptedGriddata(impl), DefaultFilter) :
                        res \in 1..MaxRes, pad \in PadFractions}
       \/ /\ impl \in {"grid", "demgen"}
          /\ als \in FewClouds
          /\ cfg \in {MakeCfg(res, pad, gd, gf) :
                        res \in 1..MaxRes, pad \in PadFractions,
                        gd \in GriddataSettings, gf \in GapFiltersOf(impl)}
    /\ pc = "idle"
    /\ outcome = "none"
    /\ p = None
    /\ x = None
    /\ y = None
    /\ xc = None
    /\ yc = None
    /\ grid_var = <<>>
    /\ n_shots = None
    /\ dem_mask = None
    /\ processing_level = IF impl = "grid" THEN "l3c" ELSE "n/a"
    /\ metadata = [cdm_data_type |-> "unset", processing_level |-> "unset"]
    /\ ret = [called |-> FALSE, name |-> "", masked |-> FALSE, found |-> FALSE, mask |-> None]
    /\ AlignUnused /\ PresetUnused /\ MosaicUnused /\ RestUnused

\* ---------------------------------------------------------------- create()

Raise(error) ==
    /\ pc' = "idle"
    /\ outcome' = error

\* A call of create(); the steps below run in the order of its body.
Create ==
    /\ pc = "idle"
    /\ pc' = "proj"
    /\ outcome' = "running"
    /\ ret' = [called |-> FALSE, name |-> "", masked |-> FALSE, found |-> FALSE, mask |-> None]
    /\ UNCHANGED <<impl, als, cfg, p, x, y, xc, yc, grid_var, n_shots, dem_mask,
                   processing_level, metadata>>
    /\ UNCHANGED <<alignVars, presetVars, mosaicVars, restVars>>

\* The step after _griddata / _grid_statistics: _gap_filter unless the
\* configured algorithm is "none".  Reading ["algorithm"] of a gap_filter
\* that is None raises TypeError.
AfterGridding ==
    IF cfg.gap_filter = UnsetFilter THEN "idle"
    ELSE IF cfg.gap_filter.algorithm # "none" THEN "gap_filter" ELSE "update_metadata"
AfterGriddingOutcome == IF cfg.gap_filter = UnsetFilter THEN "TypeError" ELSE outcome

\* AlsDEM._proj.  With no finite longitude or latitude the centre is NaN and
\* every sample is a NaN sample: pyproj either rejects the centre or the
\* restored mask leaves x and y all NaN.
Proj ==
    /\ pc = "proj"
    /\ LET c2 == SwathLonLatCenter2(als.lon, als.lat)
       IN  \/ /\ IsFinite(c2[1]) /\ IsFinite(c2[2])
              /\ p' = <<Val(c2[1]), Val(c2[2])>>
              /\ x' = [i \in 1..NSamples |-> ProjCoord(als.lon, als.lon, als.lat, Val(c2[1]), i)]
              /\ y' = [i \in 1..NSamples |-> ProjCoord(als.lat, als.lon, als.lat, Val(c2[2]), i)]
              /\ pc' = "griddata"
              /\ UNCHANGED outcome
           \/ /\ IsNaN(c2[1]) \/ IsNaN(c2[2])
              /\ p' = None
              /\ x' = [i \in 1..NSamples |-> NaN]
              /\ y' = [i \in 1..NSamples |-> NaN]
              /\ pc' = "griddata"
              /\ UNCHANGED outcome
           \/ /\ IsNaN(c2[1]) \/ IsNaN(c2[2])
              /\ Raise("ProjError")
              /\ UNCHANGED <<p, x, y>>
    /\ UNCHANGED <<impl, als, cfg, xc, yc, grid_var, n_shots, dem_mask,
                   processing_level, metadata, ret>>
    /\ UNCHANGED <<alignVars, presetVars, mosaicVars, restVars>>

\* The gridding algorithm test of _griddata: _grid.py compares cfg.griddata
\* itself with the name, demgen.py compares cfg.griddata["algorithm"].
GriddingAccepted == cfg.griddata = AcceptedGriddata(impl)

\* What the gridding step raises on a setting it does not accept.  _grid.py
\* compares cfg.griddata itself with "scipy.griddata" and raises
\* NotImplementedError in its else branch; demgen.py reads
\* cfg.griddata["algorithm"], which on a string raises TypeError.
RejectedGriddata(im) == IF im = "grid" THEN "NotImplementedError" ELSE "TypeError"

\* A sample that is in nonan with only one finite coordinate.
HalfFinite == \E i \in 1..NSamples : IsFinite(x[i]) # IsFinite(y[i])

Zeros(ny, nx) == [j \in 1..ny |-> [i \in 1..nx |-> FALSE]]

\* AlsDEM._griddata.  It fails in np.arange when no sample is finite, on a
\* setting of cfg.griddata it does not accept, and in qhull when the finite
\* samples do not span a triangle.
Griddata ==
    /\ pc = "griddata"
    /\ \/ /\ FiniteIdx(x) = {} \/ FiniteIdx(y) = {}
          /\ Raise("ValueError")
          /\ UNCHANGED <<xc, yc, grid_var, dem_mask>>
       \/ /\ FiniteIdx(x) # {} /\ FiniteIdx(y) # {}
          /\ LET new_xc == GridCoords(x, y, cfg.grid_pad_fraction, cfg.resolution)
                 new_yc == GridCoords(y, x, cfg.grid_pad_fraction, cfg.resolution)
             IN  /\ xc' = new_xc
                 /\ yc' = new_yc
                 /\ \/ /\ ~GriddingAccepted
                       /\ Raise(RejectedGriddata(impl))
                       /\ UNCHANGED <<grid_var, dem_mask>>
                    \/ /\ GriddingAccepted
                       /\ HalfFinite \/ Delaunay(TriPoints(x, y)) = {}
                       /\ Raise("QhullError")
                       /\ UNCHANGED <<grid_var, dem_mask>>
                    \/ /\ GriddingAccepted
                       /\ ~HalfFinite
                       /\ \E tri \in Delaunay(TriPoints(x, y)) :
                            grid_var' =
                              [name \in (IF impl = "grid"
                                         THEN {GridVariableNames[k] : k \in DOMAIN GridVariableNames}
                                         ELSE {"elevation"}) |->
                                  GridVariable(tri, Compress(als[name], NonNan(x, y)), new_xc, new_yc)]
                       /\ dem_mask' = IF impl = "grid" THEN dem_mask
                                      ELSE Zeros(Len(new_yc), Len(new_xc))
                       /\ pc' = IF impl = "grid" THEN "grid_statistics" ELSE AfterGridding
                       /\ outcome' = IF impl = "grid" THEN outcome ELSE AfterGriddingOutcome
    /\ UNCHANGED <<impl, als, cfg, p, x, y, n_shots, processing_level, metadata, ret>>
    /\ UNCHANGED <<alignVars, presetVars, mosaicVars, restVars>>

\* The occupancy histogram of _grid_statistics (of _gap_filter in demgen.py).
Occupancy == Histogram2dT(x, y, BinEdges2(xc, cfg.resolution), BinEdges2(yc, cfg.resolution))

\* AlsDEM._grid_statistics (_grid.py only).
GridStatistics ==
    /\ pc = "grid_statistics"
    /\ n_shots' = Occupancy
    /\ pc' = AfterGridding
    /\ outcome' = AfterGriddingOutcome
    /\ UNCHANGED <<impl, als, cfg, p, x, y, xc, yc, grid_var, dem_mask,
                   processing_level, metadata, ret>>
    /\ UNCHANGED <<alignVars, presetVars, mosaicVars, restVars>>

\* AlsDEM.input_data_mask once _n_shots is computed: True where no sample fell.
InputDataMask(shots) == [j \in DOMAIN shots |-> [i \in DOMAIN shots[j] |-> shots[j][i] = 0]]

\* The maximum filter run over the mask of invalid cells instead.
ApplyGapFilterOnInvalid(data_mask, gf) ==
    Invert(MaximumFilter(Invert(data_mask), gf.size, gf.mode))

\* The gap filter proper: the maximum filter over the mask of valid cells.
ApplyGapFilter(data_mask, gf) == MaximumFilter(data_mask, gf.size, gf.mode)

\* AlsDEM._gap_filter.  _grid.py raises the processing level first, then
\* filters the inverted input data mask; demgen.py computes the occupancy
\* here and filters (occupancy > 0).  Both invert the result into the mask.
GapFilter ==
    /\ pc = "gap_filter"
    /\ processing_level' = IF impl = "grid" THEN "l4" ELSE processing_level
    /\ n_shots' = IF impl = "grid" THEN n_shots ELSE Occupancy
    /\ LET data_mask == Invert(InputDataMask(n_shots'))
       IN  \/ /\ cfg.gap_filter.algorithm = "maximum_filter"
              /\ dem_mask' = Invert(ApplyGapFilter(data_mask, cfg.gap_filter))
              /\ pc' = "update_metadata"
              /\ UNCHANGED outcome
           \/ /\ cfg.gap_filter.algorithm # "maximum_filter"
              /\ Raise("NotImplementedError")
              /\ UNCHANGED dem_mask
    /\ UNCHANGED <<impl, als, cfg, p, x, y, xc, yc, grid_var, metadata, ret>>
    /\ UNCHANGED <<alignVars, presetVars, mosaicVars, restVars>>

\* The processing level _update_metadata records: _grid.py the attribute,
\* demgen.py the fixed string "Level-3 Collated (l3c)".
RecordedLevel == IF impl = "grid" THEN processing_level ELSE "l3c"

\* AlsDEM._update_metadata, the last step of create().
UpdateMetadata ==
    /\ pc = "update_metadata"
    /\ metadata' = [cdm_data_type |-> "grid", processing_level |-> RecordedLevel]
    /\ pc' = "idle"
    /\ outcome' = "returned"
    /\ UNCHANGED <<impl, als, cfg, p, x, y, xc, yc, grid_var, n_shots, dem_mask,
                   processing_level, ret>>
    /\ UNCHANGED <<alignVars, presetVars, mosaicVars, restVars>>

\* ---------------------------------------------------------------- readers

\* "var.mask = self._dem_mask" on a fresh masked array: None leaves no cell
\* masked.
AppliedMask(var, mask) ==
    IF mask = None THEN Zeros(Len(var), Len(var[1])) ELSE mask

\* AlsDEM.get_variable(var_name, masked) (_grid.py only).
GetVariable ==
    /\ pc = "idle"
    /\ impl = "grid"
    /\ \E name \in {"elevation"}, masked \in BOOLEAN :
         ret' = IF name \notin DOMAIN grid_var
                THEN [called |-> TRUE, name |-> name, masked |-> masked,
                      found |-> FALSE, mask |-> None]
                ELSE [called |-> TRUE, name |-> name, masked |-> masked,
                      found |-> TRUE,
                      mask |-> IF masked THEN AppliedMask(grid_var[name], dem_mask)
                               ELSE None]
    /\ UNCHANGED <<impl, als, cfg, pc, outcome, p, x, y, xc, yc, grid_var, n_shots,
                   dem_mask, processing_level, metadata>>
    /\ UNCHANGED <<alignVars, presetVars, mosaicVars, restVars>>

Next ==
    \/ Create
    \/ Proj
    \/ Griddata
    \/ GridStatistics
    \/ GapFilter
    \/ UpdateMetadata
    \/ GetVariable

Spec == Init /\ [][Next]_vars

\* ---------------------------------------------------------------- properties

\* Samples with a finite projected position, and their positions.
FiniteSamples == {i \in 1..NSamples : IsFinite(x[i]) /\ IsFinite(y[i])}
SamplePositions == {<<Val(x[i]), Val(y[i])>> : i \in FiniteSamples}

\* q lies strictly outside the convex hull of the point set P: some line
\* through two points of P has all of P on one side and q strictly on the other.
OutsideHull(q, P) ==
    \E a \in P, b \in P :
        /\ a # b
        /\ \A c \in P : Cross(a, b, c) >= 0
        /\ Cross(a, b, q) < 0

\* The state right after a successful _griddata.
Gridded == pc = "grid_statistics" \/ (impl = "demgen" /\ pc = AfterGridding /\ outcome = "running" /\ grid_var # <<>>)

\* C10: NaN propagation in _proj.  Once _proj has run, for every sample x is
\* NaN exactly when y is NaN, exactly when the sample's longitude or latitude
\* is NaN; the centre substituted for a NaN sample is never left in x or y.
C10_NanPropagation ==
    x # None =>
        \A i \in 1..NSamples :
            /\ IsNaN(x[i]) <=> IsNaN(y[i])
            /\ IsNaN(x[i]) <=> (IsNaN(als.lon[i]) \/ IsNaN(als.lat[i]))

\* C10 witness: _proj has projected a cloud that has a sample with only its
\* longitude NaN, one with only its latitude NaN, and finite samples.
C10_Witness ==
    /\ x # None
    /\ p # None
    /\ \E i \in 1..NSamples : IsNaN(als.lon[i]) /\ IsFinite(als.lat[i]) /\ IsNaN(y[i])
    /\ \E i \in 1..NSamples : IsFinite(als.lon[i]) /\ IsNaN(als.lat[i]) /\ IsNaN(x[i])
    /\ \E i \in 1..NSamples : IsFinite(x[i]) /\ IsFinite(y[i])

\* The padded bounding box of the projected samples along one axis, times
\* the denominator of the pad fraction: <<den * (vmin - pad), den * (vmax + pad)>>.
PaddedBox(a, other) ==
    LET frac == cfg.grid_pad_fraction
        padnum == Max2(frac[1] * (NanMax(a) - NanMin(a)),
                       frac[1] * (NanMax(other) - NanMin(other)))
    IN  <<frac[2] * NanMin(a) - padnum, frac[2] * NanMax(a) + padnum>>

\* The coordinate vector c reaches down to floor(vmin - pad) and up to
\* ceil(vmax + pad), both in full metres: its first node is a full metre at
\* or below vmin - pad, and a full metre at or above vmax + pad lies at or
\* below its last node.
ContainsPaddedBox(c, a, other) ==
    LET den == cfg.grid_pad_fraction[2]
        box == PaddedBox(a, other)
    IN  /\ c[1] % UnitsPerMeter = 0
        /\ den * c[1] <= box[1]
        /\ den * UnitsPerMeter * (c[Len(c)] \div UnitsPerMeter) >= box[2]

\* C7: the grid extent contains the padded, floor/ceil-rounded bounding box
\* of the projected samples, for every resolution, also one that does not
\* divide the extent.
C7_GridContainsPaddedBox ==
    (xc # None /\ yc # None) =>
        /\ ContainsPaddedBox(xc, x, y)
        /\ ContainsPaddedBox(yc, y, x)

\* C7 witness: a grid whose resolution does not divide the padded extent, so
\* that its last node lies beyond the rounded upper bound.
C7_Witness ==
    /\ xc # None
    /\ cfg.grid_pad_fraction[1] > 0
    /\ (xc[Len(xc)] - xc[1]) % UnitsPerMeter # 0
    /\ cfg.resolution * (Len(xc) - 1) = xc[Len(xc)] - xc[1]
    /\ Len(xc) > 2

\* The rounded extent <<vmin, vmax>> of the grid along one axis, in units.
RoundedExtent(a, other) ==
    LET den == cfg.grid_pad_fraction[2]
        box == PaddedBox(a, other)
    IN  <<UnitsPerMeter * FloorDiv(box[1], den * UnitsPerMeter),
          UnitsPerMeter * CeilDiv(box[2], den * UnitsPerMeter)>>

\* C8 as stated: len(xc) = floor((xmax - xmin) / res) + 1 for the rounded
\* extent, for every resolution; yc alike.
C8_LengthIsFloor ==
    (xc # None /\ yc # None) =>
        /\ Len(xc) = FloorDiv(RoundedExtent(x, y)[2] - RoundedExtent(x, y)[1], cfg.resolution) + 1
        /\ Len(yc) = FloorDiv(RoundedExtent(y, x)[2] - RoundedExtent(y, x)[1], cfg.resolution) + 1

\* C8 amended: len(xc) = ceil((xmax - xmin) / res) + 1; yc alike.  The nodes
\* start at xmin and are res apart.
C8_LengthIsCeil ==
    (xc # None /\ yc # None) =>
        LET ex == RoundedExtent(x, y)
            ey == RoundedExtent(y, x)
        IN  /\ Len(xc) = CeilDiv(ex[2] - ex[1], cfg.resolution) + 1
            /\ Len(yc) = CeilDiv(ey[2] - ey[1], cfg.resolution) + 1
            /\ \A k \in DOMAIN xc : xc[k] = ex[1] + (k - 1) * cfg.resolution
            /\ \A k \in DOMAIN yc : yc[k] = ey[1] + (k - 1) * cfg.resolution

\* C8 witness: a grid whose resolution does not divide its rounded extent.
C8_Witness ==
    /\ xc # None
    /\ (RoundedExtent(x, y)[2] - RoundedExtent(x, y)[1]) % cfg.resolution # 0
    /\ Len(xc) = FloorDiv(RoundedExtent(x, y)[2] - RoundedExtent(x, y)[1], cfg.resolution) + 2

\* The value v belongs to the cell of node k of c: node - res/2 <= v < node + res/2.
InCell(v, c, k) == 2 * c[k] - cfg.resolution <= 2 * v /\ 2 * v < 2 * c[k] + cfg.resolution

\* The state right after the occupancy histogram was computed.
Counted ==
    /\ n_shots # None
    /\ \/ impl = "grid" /\ pc = AfterGridding /\ outcome \in {"running", "TypeError"}
       \/ impl = "demgen" /\ (pc = "update_metadata" \/ outcome = "NotImplementedError")
             /\ cfg.gap_filter.algorithm \notin {"none", UnsetFilter.algorithm}
             /\ GriddingAccepted

\* C9: the occupancy histogram conserves the samples.  The counts sum to the
\* number of samples with a finite projected position, and every cell counts
\* exactly the finite samples within half a resolution of its node, so that
\* no sample without position is counted and none is counted twice.
C9_OccupancyConservation ==
    Counted =>
        LET finite == FiniteSamples
        IN  /\ SumSeq([j \in DOMAIN n_shots |-> SumSeq(n_shots[j])]) = Cardinality(finite)
            /\ \A j \in DOMAIN yc : \A i \in DOMAIN xc :
                 n_shots[j][i] = Cardinality({k \in finite :
                                     InCell(Val(x[k]), xc, i) /\ InCell(Val(y[k]), yc, j)})

\* C9 witness: a histogram of a cloud with a sample without position and a
\* sample exactly on a bin edge.
C9_Witness ==
    /\ Counted
    /\ Cardinality(FiniteSamples) < NSamples
    /\ \E k \in FiniteSamples : \E i \in DOMAIN xc : 2 * Val(x[k]) = 2 * xc[i] - cfg.resolution

\* C1: no extrapolation.  After _griddata every gridded variable is NaN at
\* every grid node strictly outside the convex hull of the finite projected
\* samples, also at the nodes find_simplex reports as -1, for which the
\* vertices and the transform of the last simplex are taken.
C1_NoExtrapolation ==
    Gridded =>
        LET P == SamplePositions
        IN  \A name \in DOMAIN grid_var : \A j \in DOMAIN yc : \A i \in DOMAIN xc :
                OutsideHull(<<xc[i], yc[j]>>, P) => IsNaN(grid_var[name][j][i])

\* C1 witness: a gridded cloud with a node outside the hull, a node inside
\* it (where the variable is finite), and more than one simplex.
C1_Witness ==
    /\ Gridded
    /\ Cardinality(SamplePositions) = 4
    /\ \E j \in DOMAIN yc : \E i \in DOMAIN xc :
         OutsideHull(<<xc[i], yc[j]>>, SamplePositions) /\ IsNaN(grid_var["elevation"][j][i])
    /\ \E j \in DOMAIN yc : \E i \in DOMAIN xc : IsFinite(grid_var["elevation"][j][i])

\* C2: affine reproduction.  The elevation of the point cloud is the plane
\* z = 2x + 3y; after _griddata the gridded elevation is 2x + 3y at every
\* grid node of the (closed) convex hull of the samples.  The value is the
\* weighted sum of the vertex values over the common denominator of the
\* weights, so this also says that the weights sum to one and that the
\* vertex indices address the samples in the order triangulated.
C2_AffineReproduction ==
    Gridded =>
        LET P == SamplePositions
        IN  \A j \in DOMAIN yc : \A i \in DOMAIN xc :
                ~OutsideHull(<<xc[i], yc[j]>>, P) =>
                    LET v == grid_var["elevation"][j][i]
                    IN  /\ IsFinite(v)
                        /\ v[2] > 0
                        /\ v[1] = v[2] * (2 * xc[i] + 3 * yc[j])

\* C2 witness: a gridded cloud whose first sample has no position (so that
\* the triangulated order differs from the array order), with a node of the
\* hull that is no sample position.
C2_Witness ==
    /\ Gridded
    /\ IsNaN(x[1])
    /\ \E j \in DOMAIN yc : \E i \in DOMAIN xc :
         /\ ~OutsideHull(<<xc[i], yc[j]>>, SamplePositions)
         /\ <<xc[i], yc[j]>> \notin SamplePositions
         /\ IsFinite(grid_var["elevation"][j][i])

\* A successful _gap_filter has just run, or create() has returned after it.
GapFiltered ==
    /\ cfg.gap_filter.algorithm = "maximum_filter"
    /\ dem_mask # None /\ n_shots # None
    /\ pc = "update_metadata" \/ (pc = "idle" /\ outcome = "returned")

\* C3 as stated: after _gap_filter with the maximum filter every cell with
\* no sample is still masked.
C3_MaskIsSuperset ==
    GapFiltered =>
        \A j \in DOMAIN n_shots : \A i \in DOMAIN n_shots[j] :
            n_shots[j][i] = 0 => dem_mask[j][i]

\* C3 amended: the gap-filled mask is a subset of the zero-occupancy mask.
\* A masked cell holds no sample, and neither does any grid cell of its
\* filter window.
C3_MaskIsSubset ==
    GapFiltered =>
        \A j \in DOMAIN n_shots : \A i \in DOMAIN n_shots[j] :
            dem_mask[j][i] =>
                \A dj \in Window(cfg.gap_filter.size), di \in Window(cfg.gap_filter.size) :
                    (j + dj \in DOMAIN n_shots /\ i + di \in DOMAIN n_shots[j])
                        => n_shots[j + dj][i + di] = 0

\* C3 witness: a gap filter with a window of more than one cell has unmasked
\* a cell without samples and left another masked.
C3_Witness ==
    /\ GapFiltered
    /\ cfg.gap_filter.size > 1
    /\ \E j \in DOMAIN n_shots : \E i \in DOMAIN n_shots[j] : n_shots[j][i] = 0 /\ ~dem_mask[j][i]
    /\ \E j \in DOMAIN n_shots : \E i \in DOMAIN n_shots[j] : dem_mask[j][i]

\* C4 as stated: with the gap filter "none", after create() the mask that
\* get_variable(name, masked=True) applies is (occupancy == 0).
C4_MaskIsZeroOccupancy ==
    (/\ impl = "grid"
     /\ cfg.gap_filter.algorithm = "none"
     /\ outcome = "returned"
     /\ ret.called /\ ret.found /\ ret.masked)
        => ret.mask = InputDataMask(n_shots)

\* C5 as stated, on completion: when create() has returned, the recorded
\* processing level is l4 if a gap filter other than "none" was configured,
\* and l3c if it is "none".
C5_RecordedLevel ==
    (pc = "idle" /\ outcome = "returned") =>
        metadata.processing_level =
            IF cfg.gap_filter.algorithm # "none" THEN "l4" ELSE "l3c"

\* C5 as stated: the level starts as l3c, is recorded on completion as
\* above, and never goes from l4 back to l3c.
C5_ProcessingLevel ==
    /\ (impl = "grid" => processing_level = "l3c")
    /\ []C5_RecordedLevel
    /\ [][/\ processing_level = "l4" => processing_level' = "l4"
          /\ metadata.processing_level = "l4" => metadata'.processing_level = "l4"]_vars

\* The configured gap-filter algorithm is a name _gap_filter does not know.
UnsupportedFilter ==
    cfg.gap_filter.algorithm \notin {"none", "maximum_filter", UnsetFilter.algorithm}

\* C6 as stated (_grid.py): with an unsupported gap-filter algorithm create()
\* never returns normally and leaves the DEM in state l3c, its mask and
\* metadata as they were before the call; the level l4 is never seen without
\* a filtered mask.
C6_FailsAtomically ==
    impl = "grid" =>
        /\ (UnsupportedFilter /\ pc = "idle") =>
              /\ outcome # "returned"
              /\ processing_level = "l3c"
              /\ dem_mask = None
              /\ metadata.processing_level = "unset"
        /\ processing_level = "l4" => dem_mask # None

\* ---------------------------------------------------------------- heading alignment

\* The AlsDEM state of Spec, at rest in the specifications that follow.
DemUnused ==
    /\ impl = "grid" /\ als = None /\ cfg = None /\ pc = "unused" /\ outcome = "none"
    /\ p = None /\ x = None /\ y = None /\ xc = None /\ yc = None
    /\ grid_var = <<>> /\ n_shots = None /\ dem_mask = None
    /\ processing_level = "l3c"
    /\ metadata = [cdm_data_type |-> "unset", processing_level |-> "unset"]
    /\ ret = [called |-> FALSE, name |-> "", masked |-> FALSE, found |-> FALSE, mask |-> None]

\* np.arctan2(dy, dx) in eighths of a turn, for a vector along an axis or a
\* diagonal; arctan2(0, 0) is 0 and arctan2(0, dx < 0) is half a turn.
ArcTan2(dy, dx) ==
    CASE dy = 0 /\ dx >= 0 -> 0
      [] dy = 0 /\ dx < 0  -> 4
      [] dx = 0 /\ dy > 0  -> 2
      [] dx = 0 /\ dy < 0  -> -2
      [] dx > 0 /\ dy = dx  -> 1
      [] dx < 0 /\ dy = -dx -> 3
      [] dx < 0 /\ dy = dx  -> -3
      [] dx > 0 /\ dy = -dx -> -1

\* The loop of heading_prj: for every shot of a line the angle of the vector
\* from its position in the first line to its position in the last line
\* (x[0, s] to x[-1, s]); NaN when one of the two has no position.
ShotAngles(xs, ys, shape) ==
    [s \in 1..shape[2] |->
        LET first == s
            last == (shape[1] - 1) * shape[2] + s
        IN  IF IsNaN(xs[first]) \/ IsNaN(ys[first]) \/ IsNaN(xs[last]) \/ IsNaN(ys[last])
            THEN NaN
            ELSE Fin(ArcTan2(Val(ys[last]) - Val(ys[first]), Val(xs[last]) - Val(xs[first])))]

\* np.nanmean(angles) as the fraction <<sum, count>>, NaN when no angle is finite.
NanMean(a) ==
    IF FiniteIdx(a) = {} THEN NaN
    ELSE <<SumSeq([i \in DOMAIN a |-> IF IsFinite(a[i]) THEN Val(a[i]) ELSE 0]),
           Cardinality(FiniteIdx(a))>>

\* angle = self.heading_prj - 0.5 * pi with heading_prj = 0.5 * pi - nanmean:
\* minus the mean shot angle, in eighths of a turn, as <<numerator, denominator>>.
AlignAngle(xs, ys, shape) ==
    LET mean == NanMean(ShotAngles(xs, ys, shape))
    IN  IF IsNaN(mean) THEN NaN ELSE <<-mean[1], mean[2]>>

\* The angle is a whole number of quarter turns, whose sine and cosine are
\* integers; QuarterTurns is that number.
IsQuarterTurn(angle) == angle[1] % (2 * angle[2]) = 0
QuarterTurns(angle) == (angle[1] \div (2 * angle[2])) % 4
Cos4(q) == <<1, 0, -1, 0>>[q + 1]
Sin4(q) == <<0, 1, 0, -1>>[q + 1]

\* One coordinate left as it is.
ReformPointUncentred(v, centre) == v

\* points = [self.x.flatten() - xc, self.y.flatten() - yc], one coordinate.
ReformPoint(v, centre) == IF IsNaN(v) THEN NaN ELSE Fin(Val(v) - centre)

\* rot_matrix.dot(points) for one point: row 1 is (cos, -sin), row 2 is
\* (sin, cos); a NaN coordinate makes both products NaN.
Rotate(px, py, q) ==
    IF IsNaN(px) \/ IsNaN(py) THEN <<NaN, NaN>>
    ELSE <<Fin(Cos4(q) * Val(px) - Sin4(q) * Val(py)),
           Fin(Sin4(q) * Val(px) + Cos4(q) * Val(py))>>

\* np.nanmedian of coordinates stored doubled (all even before _align).
CenterPoint2(a) == Val(NanMedian2(a)) \div 2

\* The positions a projected sample may have (doubled), or none.
AlignSamples ==
    {<<NaN, NaN>>} \cup {<<Fin(2 * a), Fin(2 * b)>> : a \in {-1, 1}, b \in {-1, 1}}

\* The shapes (scan lines, shots per line) of the point cloud.
AlignShapes == {<<1, 2>>, <<2, 2>>}

\* The projected point clouds handed to _align: those whose mean shot angle
\* is NaN or a whole number of quarter turns (any other rotation has
\* irrational entries).
AlignInputs ==
    {in \in UNION {[shape : {sh}, x : [1..(sh[1] * sh[2]) -> {NaN, Fin(-2), Fin(2)}],
                    y : [1..(sh[1] * sh[2]) -> {NaN, Fin(-2), Fin(2)}]] : sh \in AlignShapes} :
        /\ \A i \in DOMAIN in.x : <<in.x[i], in.y[i]>> \in AlignSamples
        /\ LET angle == AlignAngle(in.x, in.y, in.shape)
           IN  IsNaN(angle) \/ IsQuarterTurn(angle)}

InitAlign ==
    /\ DemUnused /\ PresetUnused /\ MosaicUnused /\ RestUnused
    /\ align_in \in AlignInputs
    /\ align_x = align_in.x
    /\ align_y = align_in.y
    /\ align_parameters = None
    /\ align_pc = "projected"

\* AlsDEM._align (the same code in _grid.py and demgen.py).
Align ==
    /\ align_pc = "projected"
    /\ align_pc' = "aligned"
    /\ LET angle == AlignAngle(align_x, align_y, align_in.shape)
       IN  IF IsNaN(angle)
           THEN UNCHANGED <<align_x, align_y, align_parameters>>
           ELSE LET cx == CenterPoint2(align_x)
                    cy == CenterPoint2(align_y)
                    rotated == [i \in DOMAIN align_x |->
                                   Rotate(ReformPoint(align_x[i], cx),
                                          ReformPoint(align_y[i], cy),
                                          QuarterTurns(angle))]
                IN  /\ align_x' = [i \in DOMAIN align_x |-> rotated[i][1]]
                    /\ align_y' = [i \in DOMAIN align_y |-> rotated[i][2]]
                    /\ align_parameters' = [center_point |-> <<cx, cy>>, angle |-> angle]
    /\ UNCHANGED <<align_in, demVars, presetVars, mosaicVars, restVars>>

\* A new projection of the point cloud (create() runs _proj before _align).
Reproject ==
    /\ align_pc = "aligned"
    /\ align_pc' = "projected"
    /\ align_x' = align_in.x
    /\ align_y' = align_in.y
    /\ UNCHANGED <<align_in, align_parameters, demVars, presetVars, mosaicVars, restVars>>

NextAlign == Align \/ Reproject

SpecAlign == InitAlign /\ [][NextAlign]_vars

\* _align has run and found the rotation angle 0.
AlignedByZero ==
    /\ align_pc = "aligned"
    /\ align_parameters # None
    /\ align_parameters.angle[1] = 0

PresetModes == {"sea_ice_low", "sea_ice_high", "mosaic_standard", "sea_ice_mid"}

\* The keyword arguments tried: any of the three keys, with these values.
KwargValues(k) ==
    CASE k = "resolution"       -> {200}
      [] k = "resolution_m"     -> {200, 300}
      [] k = "segment_len_secs" -> {5, 15}
PresetKwargs ==
    {kw \in UNION {[K -> {5, 15, 200, 300}] :
                      K \in SUBSET {"resolution", "resolution_m", "segment_len_secs"}} :
        \A k \in DOMAIN kw : kw[k] \in KwargValues(k)}

\* The parameter names of AlsDEMCfg.__init__.
InitParams(im) ==
    IF im = "grid"
    THEN {"input_filter", "connect_keyw", "resolution_m", "segment_len_secs", "method",
          "gap_filling", "grid_pad_fraction", "projection", "grid_mapping"}
    ELSE {"resolution", "align_heading", "griddata", "gap_filter", "grid_pad_fraction",
          "segment_len_secs"}

\* cls(**keyw): a keyword that is no parameter of __init__ is a TypeError;
\* the resolution is the parameter resolution_m (default 1.0) in _grid.py and
\* resolution (None, then 1.0) in demgen.py; the segment length defaults to
\* 30 s in _grid.py and 20 s in demgen.py.
CfgInit(im, keyw) ==
    IF ~(DOMAIN keyw \subseteq InitParams(im)) THEN [outcome |-> "TypeError", cfg |-> None]
    ELSE LET rkey == IF im = "grid" THEN "resolution_m" ELSE "resolution"
         IN  [outcome |-> "returned",
              cfg |-> [resolution |-> IF rkey \in DOMAIN keyw THEN keyw[rkey] ELSE 100,
                       segment_len_secs |->
                           IF "segment_len_secs" \in DOMAIN keyw THEN keyw["segment_len_secs"]
                           ELSE IF im = "grid" THEN 30 ELSE 20]]

\* The keywords a preset stands for, None for a name the module does not know.
PresetKeyw(im, mode) ==
    IF im = "grid"
    THEN CASE mode = "sea_ice_low"     -> [resolution |-> 25, segment_len_secs |-> 60]
           [] mode = "sea_ice_high"    -> [resolution |-> 50, segment_len_secs |-> 60]
           [] mode = "mosaic_standard" -> [resolution |-> 50, segment_len_secs |-> 30]
           [] OTHER -> None
    ELSE CASE mode = "sea_ice_low"     -> [resolution |-> 25, segment_len_secs |-> 10]
           [] mode = "sea_ice_high"    -> [resolution |-> 50, segment_len_secs |-> 30]
           [] OTHER -> None

\* keyw.update(kwargs)
DictUpdate(d, e) ==
    [k \in DOMAIN d \cup DOMAIN e |-> IF k \in DOMAIN e THEN e[k] ELSE d[k]]

\* AlsDEMCfg.preset(mode, **kwargs).  preset of demgen.py takes no keyword
\* arguments: passing one is a TypeError of the call.
PresetResult(im, mode, kwargs) ==
    IF im = "demgen" /\ DOMAIN kwargs # {} THEN [outcome |-> "TypeError", cfg |-> None]
    ELSE IF PresetKeyw(im, mode) = None THEN [outcome |-> "ValueError", cfg |-> None]
    ELSE CfgInit(im, DictUpdate(PresetKeyw(im, mode), kwargs))

InitPreset ==
    /\ DemUnused /\ AlignUnused /\ MosaicUnused /\ RestUnused
    /\ preset_call \in [impl : {"grid", "demgen"}, mode : PresetModes, kwargs : PresetKwargs]
    /\ preset_ret = None

Preset ==
    /\ preset_ret = None
    /\ preset_ret' = PresetResult(preset_call.impl, preset_call.mode, preset_call.kwargs)
    /\ UNCHANGED <<preset_call, demVars, alignVars, mosaicVars, restVars>>

NextPreset == Preset

SpecPreset == InitPreset /\ [][NextPreset]_vars

\* The preset names the contract calls known.
KnownPreset(im, mode) ==
    mode \in {"sea_ice_low", "sea_ice_high"} \/ (im = "grid" /\ mode = "mosaic_standard")

\* C12 as stated: preset(mode) raises ValueError for an unknown name, and
\* for every known name returns a configuration that carries the preset's
\* resolution and segment length, each overridden by a keyword argument of
\* its name if one is given.  (Calls of demgen.py's preset with keyword
\* arguments, which it does not take, are left aside.)
C12_PresetContract ==
    (preset_ret # None /\ ~(preset_call.impl = "demgen" /\ DOMAIN preset_call.kwargs # {})) =>
        LET im == preset_call.impl
            kw == preset_call.kwargs
            keyw == PresetKeyw(im, preset_call.mode)
        IN  IF ~KnownPreset(im, preset_call.mode) THEN preset_ret.outcome = "ValueError"
            ELSE /\ preset_ret.outcome = "returned"
                 /\ preset_ret.cfg.resolution =
                        IF "resolution" \in DOMAIN kw THEN kw["resolution"] ELSE keyw.resolution
                 /\ preset_ret.cfg.segment_len_secs =
                        IF "segment_len_secs" \in DOMAIN kw THEN kw["segment_len_secs"]
                        ELSE keyw.segment_len_secs

\* ---------------------------------------------------------------- mosaic

\* Projected coordinates, resolutions and drift offsets of the mosaic part
\* are whole numbers of half metres; times are whole seconds.

\* int(a / b) for b > 0: truncation toward zero.
TruncDiv(a, b) == IF a >= 0 THEN a \div b ELSE -((-a) \div b)

\* round(a / b) for b > 0: to the nearest integer, a tie to the even one.
RoundDiv(a, b) ==
    LET q == a \div b
        r == a - q * b
    IN  IF 2 * r < b THEN q
        ELSE IF 2 * r > b THEN q + 1
        ELSE IF q % 2 = 0 THEN q ELSE q + 1

\* np.linspace(start, stop, num) for num >= 0, each sample a fraction
\* <<numerator, denominator>>; one sample is the start alone.
LinSpace(start, stop, num) ==
    IF num = 1 THEN <<(<<start, 1>>)>>
    ELSE [k \in 1..num |-> <<start * (num - 1) + (k - 1) * (stop - start), num - 1>>]

\* np.full(dims, np.nan)
FullNaN(dims) == [j \in 1..dims[1] |-> [i \in 1..dims[2] |-> NaN]]

\* The number of samples along one axis, rounded instead of truncated.
AxisSamplesRounded(v_min, v_max, res_m) == RoundDiv(v_max - v_min, res_m)

\* The number of samples along one axis: int((max - min) / res_m).
AxisSamples(v_min, v_max, res_m) == TruncDiv(v_max - v_min, res_m)

\* ALSMergedGrid.__init__: np.linspace raises ValueError for a negative
\* number of samples (no object then, None).
ALSMergedGrid(x_min, x_max, y_min, y_max, res_m) ==
    LET nx == AxisSamples(x_min, x_max, res_m)
        ny == AxisSamples(y_min, y_max, res_m)
    IN  IF nx < 0 \/ ny < 0 THEN None
        ELSE [x_min |-> x_min, x_max |-> x_max, y_min |-> y_min, y_max |-> y_max,
              res |-> res_m,
              xc |-> LinSpace(x_min, x_max, nx),
              yc |-> LinSpace(y_min, y_max, ny),
              dims |-> <<ny, nx>>,
              grid |-> FullNaN(<<ny, nx>>),
              lons |-> FullNaN(<<ny, nx>>),
              lats |-> FullNaN(<<ny, nx>>)]

\* ---------------------------------------------------------------- tiles

\* The node spacing of every tile file: one metre.
TileSpacing == 2

\* The tile files: first xc and yc node, elevation (rows along yc), and
\* reference time.
TileFiles ==
    << [xc0 |-> 0, yc0 |-> 0, reftime |-> 1,
        value |-> << <<Fin(2), Fin(6)>>, <<NaN, Fin(10)>> >>],
       [xc0 |-> 2, yc0 |-> 0, reftime |-> 3,
        value |-> << <<Fin(0), Fin(4)>>, <<Fin(8), Fin(2)>> >>],
       [xc0 |-> 3, yc0 |-> 2, reftime |-> 3,
        value |-> << <<NaN, NaN>>, <<NaN, NaN>> >>],
       [xc0 |-> 1, yc0 |-> 0, reftime |-> 5,
        value |-> << <<Fin(4), NaN, Fin(0)>> >>],
       [xc0 |-> 0, yc0 |-> 0, reftime |-> 2,
        value |-> << <<Fin(1), Fin(3)>>, <<Fin(5), Fin(7)>> >>],
       [xc0 |-> 0, yc0 |-> 0, reftime |-> 1,
        value |-> << <<Fin(1), Fin(3), NaN>>, <<Fin(5), NaN, NaN>>, <<NaN, NaN, NaN>> >>],
       [xc0 |-> 4, yc0 |-> 0, reftime |-> 3,
        value |-> << <<Fin(2), NaN>>, <<NaN, NaN>> >>] >>

\* ALSL4Grid.__init__ and _read_file: the coordinates of the file, offset 0.
ALSL4Grid(f) ==
    [file |-> f, xc0 |-> TileFiles[f].xc0, yc0 |-> TileFiles[f].yc0, offset |-> <<0, 0>>]

\* ALSL4Grid.value, .lons, .lats, .reftime.  Longitude and latitude are
\* finite in every cell of a tile file and differ from cell to cell and
\* from file to file.
Value(grid) == TileFiles[grid.file].value
Lons(grid) == [j \in DOMAIN Value(grid) |-> [i \in DOMAIN Value(grid)[j] |->
                  Fin(100 * grid.file + 10 * j + i)]]
Lats(grid) == [j \in DOMAIN Value(grid) |-> [i \in DOMAIN Value(grid)[j] |->
                  Fin(-(100 * grid.file + 10 * j + i))]]
RefTime(grid) == TileFiles[grid.file].reftime

\* The number of nodes of a tile along xc (axis 1) and yc (axis 2).
AxisLen(grid, axis) == IF axis = 1 THEN Len(Value(grid)[1]) ELSE Len(Value(grid))

\* The first stored node of nc.xc.values (axis 1) or nc.yc.values (axis 2).
Stored(grid, axis) == IF axis = 1 THEN grid.xc0 ELSE grid.yc0

\* What `xc = self.nc.xc.values; xc += self.offset[0]` can do, by how the
\* installed xarray / pandas hand out the values of an index coordinate:
\* "view" the array is the stored one and is shifted in place, "copy" the
\* array is a fresh copy, "readonly" the array is not writeable and +=
\* raises ValueError.
ValuesModes == {"view", "copy", "readonly"}

\* The tile after `xc += self.offset[0]` (axis 1) or `yc += self.offset[1]`.
Shift(mode, grid, axis) ==
    IF mode # "view" THEN grid
    ELSE IF axis = 1 THEN [grid EXCEPT !.xc0 = @ + grid.offset[1]]
    ELSE [grid EXCEPT !.yc0 = @ + grid.offset[2]]

\* ALSL4Grid.xc_bounds (axis 1) / yc_bounds (axis 2): the tile afterwards
\* and the [min, max] returned.
Bounds(mode, grid, axis) ==
    IF mode = "readonly" THEN [error |-> "ValueError", grid |-> grid, ret |-> None]
    ELSE LET lo == Stored(grid, axis) + grid.offset[axis]
         IN  [error |-> "none", grid |-> Shift(mode, grid, axis),
              ret |-> <<lo, lo + (AxisLen(grid, axis) - 1) * TileSpacing>>]

\* ALSL4Grid.grid_xc_yc: the tile afterwards and the first nodes of the
\* (xc, yc) that are meshed.
GridXcYc(mode, grid) ==
    IF mode = "readonly" THEN [error |-> "ValueError", grid |-> grid, ret |-> None]
    ELSE [error |-> "none", grid |-> Shift(mode, Shift(mode, grid, 1), 2),
          ret |-> <<grid.xc0 + grid.offset[1], grid.yc0 + grid.offset[2]>>]

\* ---------------------------------------------------------------- add_grid

\* ALSMergedGrid.xc_bounds[0] / yc_bounds[0] for a coordinate vector with at
\* least one sample: linspace ascends (it has samples only when stop > start),
\* so the minimum is the first sample, which is the start.
CoordMin(c) == c[1][1] \div c[1][2]

\* The offset index, rounded to the nearest integer instead of truncated.
OffsetIndexRounded(tile_min, mosaic_min, res_m) == RoundDiv(tile_min - mosaic_min, res_m)

\* int((grid.xc_bounds[0] - self.xc_bounds[0]) / self.res)
OffsetIndex(tile_min, mosaic_min, res_m) == TruncDiv(tile_min - mosaic_min, res_m)

\* Every index pair of the tile, finite or not.
AllIndices(value) == {<<j, i>> \in (DOMAIN value) \X (DOMAIN value[1]) : TRUE}

\* np.where(np.isfinite(grid.value)), as the set of (row, column), from 1.
ValidIndices(value) ==
    {<<j, i>> \in (DOMAIN value) \X (DOMAIN value[1]) : IsFinite(value[j][i])}

\* An index pair comes before another in the row-major order of np.where.
RowMajorBefore(a, b) == a[1] < b[1] \/ (a[1] = b[1] /\ a[2] <= b[2])

\* np.nanmedian(grid.value), doubled; NaN for a tile without finite cell.
TileMedian2(value) ==
    LET nx == Len(value[1])
    IN  NanMedian2([k \in 1..(Len(value) * nx) |-> value[((k - 1) \div nx) + 1][((k - 1) % nx) + 1]])

\* grid.value[...] - np.nanmedian(grid.value) for a finite cell, doubled.
Debias(v, median2) == Fin(2 * Val(v) - Val(median2))

\* An index k, counted from 0, is accepted along an axis of n cells; a
\* negative one counts from the end.
IndexInBounds(k, n) == -n <= k /\ k < n
WrapIndex(k, n) == IF k < 0 THEN k + n ELSE k

\* An assignment that keeps a cell that is finite already.
AssignKeepFinite(target, idx, source, yj_offset, xi_offset) ==
    LET ny == Len(target)
        nx == Len(target[1])
        Writers(r, c) == {ji \in idx : /\ WrapIndex(ji[1] - 1 + yj_offset, ny) + 1 = r
                                       /\ WrapIndex(ji[2] - 1 + xi_offset, nx) + 1 = c}
        Last(W) == CHOOSE a \in W : \A b \in W : RowMajorBefore(b, a)
    IN  [r \in 1..ny |-> [c \in 1..nx |->
            IF Writers(r, c) = {} \/ IsFinite(target[r][c]) THEN target[r][c]
            ELSE source[Last(Writers(r, c))[1]][Last(Writers(r, c))[2]]]]

\* target[(subset_yj + yj_offset, subset_xi + xi_offset)] = source[idx] with
\* every index in bounds: the cell an index pair designates takes the source
\* value; of several pairs that designate one cell the last one stays.
Assign(target, idx, source, yj_offset, xi_offset) ==
    LET ny == Len(target)
        nx == Len(target[1])
        Writers(r, c) == {ji \in idx : /\ WrapIndex(ji[1] - 1 + yj_offset, ny) + 1 = r
                                       /\ WrapIndex(ji[2] - 1 + xi_offset, nx) + 1 = c}
        Last(W) == CHOOSE a \in W : \A b \in W : RowMajorBefore(b, a)
    IN  [r \in 1..ny |-> [c \in 1..nx |->
            IF Writers(r, c) = {} THEN target[r][c]
            ELSE source[Last(Writers(r, c))[1]][Last(Writers(r, c))[2]]]]

\* ALSMergedGrid.add_grid(grid) on mosaic m: the error raised if any, the
\* tile and the mosaic afterwards, and the offset indices.  The tile bound
\* is read before the mosaic bound, whose nanmin raises ValueError on an
\* axis without samples; an index out of bounds raises IndexError before
\* anything is written.
AddGridTo(mode, m, grid) ==
    LET bx == Bounds(mode, grid, 1)
        by == Bounds(mode, bx.grid, 2)
        Failed(e, g) == [error |-> e, grid |-> g, merged |-> m, xi_offset |-> None,
                         yj_offset |-> None]
    IN  IF bx.error # "none" THEN Failed(bx.error, grid)
        ELSE IF m.dims[2] = 0 THEN Failed("ValueError", bx.grid)
        ELSE IF m.dims[1] = 0 THEN Failed("ValueError", by.grid)
        ELSE
        LET xi_offset == OffsetIndex(bx.ret[1], CoordMin(m.xc), m.res)
            yj_offset == OffsetIndex(by.ret[1], CoordMin(m.yc), m.res)
            idx == ValidIndices(Value(grid))
            median2 == TileMedian2(Value(grid))
            debiased == [j \in DOMAIN Value(grid) |-> [i \in DOMAIN Value(grid)[j] |->
                            IF IsFinite(Value(grid)[j][i])
                            THEN Debias(Value(grid)[j][i], median2) ELSE NaN]]
        IN  IF \E ji \in idx : \/ ~IndexInBounds(ji[1] - 1 + yj_offset, m.dims[1])
                               \/ ~IndexInBounds(ji[2] - 1 + xi_offset, m.dims[2])
            THEN Failed("IndexError", by.grid)
            ELSE [error |-> "none", grid |-> by.grid,
                  merged |-> [m EXCEPT
                      !.grid = Assign(@, idx, debiased, yj_offset, xi_offset),
                      !.lons = Assign(@, idx, Lons(grid), yj_offset, xi_offset),
                      !.lats = Assign(@, idx, Lats(grid), yj_offset, xi_offset)],
                  xi_offset |-> xi_offset, yj_offset |-> yj_offset]

\* ---------------------------------------------------------------- collection

\* The positions from k to n, whatever the ignore_list holds.
IncludedFromAll(k, n, ignore) == [q \in 1..(n - k + 1) |-> k + q - 1]

\* ALSGridCollection.included_grids, as the positions (from 1) in grids;
\* ignore_list holds positions counted from 0.
RECURSIVE IncludedFrom(_, _, _)
IncludedFrom(k, n, ignore) ==
    IF k > n THEN <<>>
    ELSE (IF \E q \in DOMAIN ignore : ignore[q] = k - 1 THEN <<>> ELSE <<k>>)
         \o IncludedFrom(k + 1, n, ignore)
IncludedGrids(gs, ignore) == IncludedFrom(1, Len(gs), ignore)

\* [grid.xc_bounds[0] for grid in self.included_grids]: every element is a
\* read of the property of one tile; the tiles afterwards.
ReadAll(mode, gs, ks, axis) ==
    [k \in DOMAIN gs |-> IF \E q \in DOMAIN ks : ks[q] = k THEN Shift(mode, gs[k], axis)
                         ELSE gs[k]]

\* ALSGridCollection.xc_bounds (axis 1) / yc_bounds (axis 2): one pass over
\* the included tiles for the minima, a second one for the maxima; nanmin of
\* an empty list raises ValueError, and so does the first read of a tile
\* whose values are not writeable.
CollectionBounds(mode, gs, ignore, axis) ==
    LET ks == IncludedGrids(gs, ignore)
        once == ReadAll(mode, gs, ks, axis)
    IN  IF ks = <<>> \/ mode = "readonly"
        THEN [error |-> "ValueError", grids |-> gs, ret |-> None]
        ELSE [error |-> "none", grids |-> ReadAll(mode, once, ks, axis),
              ret |-> <<NanMin([q \in DOMAIN ks |-> Fin(Bounds(mode, gs[ks[q]], axis).ret[1])]),
                        NanMax([q \in DOMAIN ks |->
                                   Fin(Bounds(mode, once[ks[q]], axis).ret[2])])>>]

\* The loop of get_merged_grid: add_grid for the tiles at positions ks, in
\* order, until one raises; log lists the calls made.  AddNext continues
\* after the call a for the tile at Head(ks).
RECURSIVE AddAll(_, _, _, _), AddNext(_, _, _, _)
AddAll(mode, m, gs, ks) ==
    IF ks = <<>> THEN [error |-> "none", grids |-> gs, merged |-> m, log |-> <<>>]
    ELSE AddNext(mode, gs, ks, AddGridTo(mode, m, gs[Head(ks)]))
AddNext(mode, gs, ks, a) ==
    IF a.error # "none"
    THEN [error |-> a.error, grids |-> [gs EXCEPT ![Head(ks)] = a.grid], merged |-> None,
          log |-> <<>>]
    ELSE [AddAll(mode, a.merged, [gs EXCEPT ![Head(ks)] = a.grid], Tail(ks))
             EXCEPT !.log = <<[tile |-> Head(ks), xi_offset |-> a.xi_offset,
                               yj_offset |-> a.yj_offset]>> \o @]

\* ALSGridCollection.get_merged_grid: the error raised if any, the tiles
\* afterwards, and the mosaic returned.  MergeY continues after xc_bounds
\* returned bx, MergeInto after yc_bounds returned by.
MergeInto(mode, gs, ignore, res_m, bx, by) ==
    IF by.error # "none"
    THEN [error |-> by.error, grids |-> bx.grids, merged |-> None, log |-> <<>>]
    ELSE IF ALSMergedGrid(bx.ret[1], bx.ret[2], by.ret[1], by.ret[2], res_m) = None
    THEN [error |-> "ValueError", grids |-> by.grids, merged |-> None, log |-> <<>>]
    ELSE AddAll(mode, ALSMergedGrid(bx.ret[1], bx.ret[2], by.ret[1], by.ret[2], res_m),
                by.grids, IncludedGrids(gs, ignore))
MergeY(mode, gs, ignore, res_m, bx) ==
    IF bx.error # "none"
    THEN [error |-> bx.error, grids |-> gs, merged |-> None, log |-> <<>>]
    ELSE MergeInto(mode, gs, ignore, res_m, bx, CollectionBounds(mode, bx.grids, ignore, 2))
MergedGridOf(mode, gs, ignore, res_m) ==
    MergeY(mode, gs, ignore, res_m, CollectionBounds(mode, gs, ignore, 1))

\* ---------------------------------------------------------------- drift correction

\* The reference trajectories: time in seconds, longitude and latitude in
\* ticks.
References ==
    { [time |-> <<0, 6>>, longitude |-> <<0, 6>>, latitude |-> <<0, 0>>],
      [time |-> <<1, 2, 3, 5>>, longitude |-> <<0, 1, 1, 0>>, latitude |-> <<0, 0, -1, 2>>],
      [time |-> <<2, 3, 4>>, longitude |-> <<0, 1, 5>>, latitude |-> <<0, 0, 0>>],
      [time |-> <<1, 5>>, longitude |-> <<0, 6>>, latitude |-> <<0, -6>>] }

\* ALSGridCollection.times and time_bounds
Times(gs) == [k \in DOMAIN gs |-> RefTime(gs[k])]
TimeBounds(gs) == <<NanMin([k \in DOMAIN gs |-> Fin(RefTime(gs[k]))]),
                    NanMax([k \in DOMAIN gs |-> Fin(RefTime(gs[k]))])>>

\* np.interp(t, xp, fp) for increasing xp, as a fraction <<num, den>>: the
\* end values outside the range of xp, linear between two samples inside.
Interp(t, xp, fp) ==
    IF t <= xp[1] THEN <<fp[1], 1>>
    ELSE IF t >= xp[Len(xp)] THEN <<fp[Len(xp)], 1>>
    ELSE LET k == CHOOSE q \in 1..(Len(xp) - 1) : xp[q] <= t /\ t < xp[q + 1]
         IN  <<fp[k] * (xp[k + 1] - xp[k]) + (t - xp[k]) * (fp[k + 1] - fp[k]),
               xp[k + 1] - xp[k]>>

\* pyproj.Proj(self.proj4str)(lon, lat), one coordinate: a tick of longitude
\* or latitude is taken as a metre east or north.
RefProj(v) == v

\* The displacement rounded to the nearest metre instead of truncated.
DisplacementRounded(v, v0) == RoundDiv(v[1] * v0[2] - v0[1] * v[2], v[2] * v0[2])

\* (ref_x - ref_x[0]).astype(int) for one tile, in metres: the difference of
\* two fractions, truncated toward zero.
Displacement(v, v0) == TruncDiv(v[1] * v0[2] - v0[1] * v[2], v[2] * v0[2])

\* The number of reference samples inside the time bounds of the tiles.
InRange(r, gs) ==
    Cardinality({q \in DOMAIN r.time : /\ r.time[q] >= TimeBounds(gs)[1]
                                       /\ r.time[q] <= TimeBounds(gs)[2]})

\* A coverage test that asks the reference to span every tile time.
CoverageTestBySpan(r, gs) ==
    \A k \in DOMAIN gs : r.time[1] <= RefTime(gs[k]) /\ RefTime(gs[k]) <= r.time[Len(r.time)]

\* The coverage test of add_drift_correction_reference passes.
CoverageTest(r, gs) == ~(InRange(r, gs) < Len(gs))

\* Steps 1 to 4 of add_drift_correction_reference: grid.offset of every tile,
\* in half metres.
DriftOffsets(r, gs) ==
    LET ref_x == [k \in DOMAIN gs |-> RefProj(Interp(RefTime(gs[k]), r.time, r.longitude))]
        ref_y == [k \in DOMAIN gs |-> RefProj(Interp(RefTime(gs[k]), r.time, r.latitude))]
    IN  [k \in DOMAIN gs |-> <<-(2 * Displacement(ref_x[k], ref_x[1])),
                               -(2 * Displacement(ref_y[k], ref_y[1]))>>]

\* ---------------------------------------------------------------- mosaic steps

\* Stored tile coordinates stay within this distance of the origin.
MaxTileCoord == 8
\* The add_grid calls made on one mosaic.
MaxAdds == 2

\* The collections: the tile files read, in order.
Collections ==
    {[k \in DOMAIN fs |-> ALSL4Grid(fs[k])] :
        fs \in {<<1>>, <<1, 2>>, <<5, 1>>, <<4, 1>>, <<2, 5>>, <<3, 2>>, <<1, 4>>}}

\* The resolutions of a collection: 1 m and 1.5 m.
Resolutions == {2, 3}

\* The mosaics constructed directly: <<x_min, x_max, y_min, y_max, res_m>>.
MosaicArgs ==
    {<<0, -3, 0, 3, 2>>, <<0, 1, 0, 4, 2>>, <<0, 4, 0, 4, 2>>, <<0, 8, 0, 4, 2>>,
     <<0, 6, 0, 3, 3>>, <<0, 9, 0, 6, 3>>, <<2, 6, 0, 2, 2>>}

InitMosaic ==
    /\ DemUnused /\ AlignUnused /\ PresetUnused /\ RestUnused
    /\ values_mode \in ValuesModes
    /\ grids \in Collections
    /\ collection_res \in Resolutions
    /\ ignore_list = <<>>
    /\ ref = None
    /\ merged = None
    /\ added = <<>>
    /\ last_op = None

\* The stored coordinates of every tile are within the range explored.
WithinRange(gs) ==
    \A k \in DOMAIN gs : /\ gs[k].xc0 \in -MaxTileCoord..MaxTileCoord
                         /\ gs[k].yc0 \in -MaxTileCoord..MaxTileCoord

Called(op, arg, error, r) == [op |-> op, arg |-> arg, error |-> error, ret |-> r]

\* merged = ALSMergedGrid(x_min, x_max, y_min, y_max, res_m, proj4str); the
\* mosaic in use stays when the constructor raises.
Construct(args) ==
    LET m == ALSMergedGrid(args[1], args[2], args[3], args[4], args[5])
    IN  /\ merged' = IF m = None THEN merged ELSE m
        /\ added' = IF m = None THEN added ELSE <<>>
        /\ last_op' = Called("ALSMergedGrid", args, IF m = None THEN "ValueError" ELSE "none",
                             None)
        /\ UNCHANGED <<values_mode, grids, collection_res, ignore_list, ref>>
        /\ UNCHANGED <<demVars, alignVars, presetVars, restVars>>

NewMosaic == \E args \in MosaicArgs : Construct(args)

\* merged.add_grid(grids[k])
AddGrid ==
    \E k \in DOMAIN grids :
        /\ merged # None
        /\ Len(added) < MaxAdds
        /\ LET a == AddGridTo(values_mode, merged, grids[k])
           IN  /\ grids' = [grids EXCEPT ![k] = a.grid]
               /\ WithinRange(grids')
               /\ merged' = a.merged
               /\ added' = IF a.error # "none" THEN added
                           ELSE Append(added, [tile |-> k, xi_offset |-> a.xi_offset,
                                               yj_offset |-> a.yj_offset])
               /\ last_op' = Called("add_grid", k, a.error, None)
        /\ UNCHANGED <<values_mode, collection_res, ignore_list, ref>>
        /\ UNCHANGED <<demVars, alignVars, presetVars, restVars>>

\* grids[k].xc_bounds
XcBounds ==
    \E k \in DOMAIN grids :
        LET b == Bounds(values_mode, grids[k], 1)
        IN  /\ grids' = [grids EXCEPT ![k] = b.grid]
            /\ WithinRange(grids')
            /\ last_op' = Called("xc_bounds", k, b.error, b.ret)
            /\ UNCHANGED <<values_mode, collection_res, ignore_list, ref, merged, added>>
            /\ UNCHANGED <<demVars, alignVars, presetVars, restVars>>

\* grids[k].yc_bounds
YcBounds ==
    \E k \in DOMAIN grids :
        LET b == Bounds(values_mode, grids[k], 2)
        IN  /\ grids' = [grids EXCEPT ![k] = b.grid]
            /\ WithinRange(grids')
            /\ last_op' = Called("yc_bounds", k, b.error, b.ret)
            /\ UNCHANGED <<values_mode, collection_res, ignore_list, ref, merged, added>>
            /\ UNCHANGED <<demVars, alignVars, presetVars, restVars>>

\* grids[k].grid_xc_yc
ReadGridXcYc ==
    \E k \in DOMAIN grids :
        LET b == GridXcYc(values_mode, grids[k])
        IN  /\ grids' = [grids EXCEPT ![k] = b.grid]
            /\ WithinRange(grids')
            /\ last_op' = Called("grid_xc_yc", k, b.error, b.ret)
            /\ UNCHANGED <<values_mode, collection_res, ignore_list, ref, merged, added>>
            /\ UNCHANGED <<demVars, alignVars, presetVars, restVars>>

\* merged = collection.get_merged_grid()
GetMergedGrid ==
    \E r \in {MergedGridOf(values_mode, grids, ignore_list, collection_res)} :
        /\ grids' = r.grids
        /\ WithinRange(grids')
        /\ merged' = IF r.error # "none" THEN merged ELSE r.merged
        /\ added' = IF r.error # "none" THEN added ELSE r.log
        /\ last_op' = Called("get_merged_grid", None, r.error, None)
        /\ UNCHANGED <<values_mode, collection_res, ignore_list, ref>>
        /\ UNCHANGED <<demVars, alignVars, presetVars, restVars>>

\* collection.add_drift_correction_reference(r), one call per collection:
\* self.ref is assigned before the coverage test.
AddDriftCorrectionReference ==
    \E r \in References :
        LET passed == CoverageTest(r, grids)
        IN  /\ ref = None
            /\ ref' = r
            /\ grids' = IF passed
                        THEN [k \in DOMAIN grids |->
                                 [grids[k] EXCEPT !.offset = DriftOffsets(r, grids)[k]]]
                        ELSE grids
            /\ last_op' = Called("add_drift_correction_reference", r,
                                 IF passed THEN "none" ELSE "ValueError", None)
            /\ UNCHANGED <<values_mode, collection_res, ignore_list, merged, added>>
            /\ UNCHANGED <<demVars, alignVars, presetVars, restVars>>

NextMosaic ==
    \/ NewMosaic
    \/ AddGrid
    \/ XcBounds
    \/ YcBounds
    \/ ReadGridXcYc
    \/ GetMergedGrid
    \/ AddDriftCorrectionReference

SpecMosaic == InitMosaic /\ [][NextMosaic]_vars

\* ---------------------------------------------------------------- mosaic construction

\* The constructor arguments tried when the constructor is checked alone.
ConstructArgs == {-1, 0, 2} \X (-3..6) \X {0} \X (0..4) \X (1..3)

InitConstruct == DemUnused /\ AlignUnused /\ PresetUnused /\ MosaicUnused /\ RestUnused

ConstructAny == \E args \in ConstructArgs : last_op = None /\ Construct(args)

NextConstruct == ConstructAny

SpecConstruct == InitConstruct /\ [][NextConstruct]_vars

\* A constructor call has returned the mosaic in use.
Constructed == last_op # None /\ last_op.op = "ALSMergedGrid" /\ last_op.error = "none"

\* c is a linear spacing from start to stop: it starts at start, ends at
\* stop when it has two samples or more, and its steps are equal.
IsLinearSpacing(c, start, stop) ==
    LET n == Len(c)
        Eq(a, b) == a[1] * b[2] = b[1] * a[2]
        Step(k) == <<c[k + 1][1] * c[k][2] - c[k][1] * c[k + 1][2], c[k][2] * c[k + 1][2]>>
    IN  /\ n >= 1 => Eq(c[1], <<start, 1>>)
        /\ n >= 2 => Eq(c[n], <<stop, 1>>)
        /\ \A k \in 1..(n - 2) : Eq(Step(k), Step(k + 1))

\* C13 as stated: ALSMergedGrid(x_min, x_max, y_min, y_max, res, proj) has
\* exactly round((x_max - x_min) / res) samples in xc and
\* round((y_max - y_min) / res) samples in yc, each a linear spacing from the
\* minimum to the maximum.
C13_SamplesRounded ==
    Constructed =>
        /\ Len(merged.xc) = RoundDiv(merged.x_max - merged.x_min, merged.res)
        /\ Len(merged.yc) = RoundDiv(merged.y_max - merged.y_min, merged.res)
        /\ IsLinearSpacing(merged.xc, merged.x_min, merged.x_max)
        /\ IsLinearSpacing(merged.yc, merged.y_min, merged.y_max)

\* C13, amended: the number of samples is the quotient truncated toward
\* zero, int((max - min) / res); the constructor raises exactly when that
\* number is negative for xc or yc; the mosaic keeps its arguments and all
\* of its cells are NaN.
C13_SamplesTruncated ==
    (last_op # None /\ last_op.op = "ALSMergedGrid") =>
        LET a == last_op.arg
            nx == TruncDiv(a[2] - a[1], a[5])
            ny == TruncDiv(a[4] - a[3], a[5])
        IN  /\ last_op.error = (IF nx < 0 \/ ny < 0 THEN "ValueError" ELSE "none")
            /\ last_op.error = "none" =>
                /\ <<merged.x_min, merged.x_max, merged.y_min, merged.y_max, merged.res>> = a
                /\ Len(merged.xc) = nx /\ Len(merged.yc) = ny
                /\ merged.dims = <<ny, nx>>
                /\ IsLinearSpacing(merged.xc, a[1], a[2])
                /\ IsLinearSpacing(merged.yc, a[3], a[4])
                /\ \A j \in 1..ny, i \in 1..nx :
                       /\ IsNaN(merged.grid[j][i])
                       /\ IsNaN(merged.lons[j][i])
                       /\ IsNaN(merged.lats[j][i])

\* A mosaic of three columns or more whose column count is the truncated and
\* not the rounded quotient.
C13_Witness ==
    /\ Constructed
    /\ Len(merged.xc) >= 3
    /\ Len(merged.xc) < RoundDiv(merged.x_max - merged.x_min, merged.res)
    /\ Len(merged.yc) >= 1

\* ---------------------------------------------------------------- add_grid placement

\* The last call was an add_grid that returned; its entry in the log.
Added == last_op # None /\ last_op.op = "add_grid" /\ last_op.error = "none"
LastAdd == added[Len(added)]

\* The minimum that xc_bounds (axis 1) / yc_bounds (axis 2) of tile g returned
\* in the add_grid call that has just returned: the stored coordinate before
\* that read plus the offset.
ReturnedMin(g, axis) ==
    IF values_mode = "view" THEN Stored(g, axis) ELSE Stored(g, axis) + g.offset[axis]

\* The mosaic cell (row, column, from 1) that the index pair of tile cell ji
\* designates under the offsets of log entry e.
Target(ji, e) ==
    <<WrapIndex(ji[1] - 1 + e.yj_offset, merged.dims[1]) + 1,
      WrapIndex(ji[2] - 1 + e.xi_offset, merged.dims[2]) + 1>>

\* A later finite cell of the same tile designates the same mosaic cell.
Overwritten(ji, e, idx) ==
    \E other \in idx : other # ji /\ Target(other, e) = Target(ji, e) /\ RowMajorBefore(ji, other)

\* Mosaic cell rc holds what add_grid writes for cell ji of tile g.
HoldsCell(rc, g, ji) ==
    /\ merged.grid[rc[1]][rc[2]] = Debias(Value(g)[ji[1]][ji[2]], TileMedian2(Value(g)))
    /\ merged.lons[rc[1]][rc[2]] = Lons(g)[ji[1]][ji[2]]
    /\ merged.lats[rc[1]][rc[2]] = Lats(g)[ji[1]][ji[2]]

CoveringCells(n, rc) ==
    {ji \in ValidIndices(Value(grids[added[n].tile])) : Target(ji, added[n]) = rc}

\* The add_grid calls of the log with a finite tile cell on mosaic cell rc.
Covering(rc) == {n \in DOMAIN added : CoveringCells(n, rc) # {}}

\* The cells of the mosaic in use.
MosaicCells == (1..merged.dims[1]) \X (1..merged.dims[2])

FiniteStays(a, b) ==
    \A j \in DOMAIN a : \A i \in DOMAIN a[j] : IsFinite(a[j][i]) => IsFinite(b[j][i])

\* C16: an add_grid call, whether it returns or raises, leaves the mosaic's
\* dimensions and coordinate vectors as they are, and no cell of elevation,
\* lon or lat that is finite before the call is NaN after it.
C16_NeverShrinks ==
    [][(merged # None /\ last_op'.op = "add_grid") =>
           /\ merged'.dims = merged.dims
           /\ merged'.xc = merged.xc
           /\ merged'.yc = merged.yc
           /\ FiniteStays(merged.grid, merged'.grid)
           /\ FiniteStays(merged.lons, merged'.lons)
           /\ FiniteStays(merged.lats, merged'.lats)]_vars

\* A second add_grid has returned whose tile has a NaN cell on a mosaic cell
\* that the first tile made finite.
C16_Witness ==
    /\ Added
    /\ Len(added) = 2
    /\ \E rc \in MosaicCells :
           /\ 1 \in Covering(rc)
           /\ 2 \notin Covering(rc)
           /\ \E ji \in AllIndices(Value(grids[added[2].tile])) : Target(ji, added[2]) = rc
           /\ IsFinite(merged.grid[rc[1]][rc[2]])

\* ---------------------------------------------------------------- idempotence

\* C17 as stated: when add_grid(tile) has returned and is called again for
\* the same tile, whose offset is the same, the mosaic (elevation, lon, lat)
\* after the second call is the mosaic after the first.
C17_Idempotent ==
    [][(/\ Added
        /\ last_op'.op = "add_grid"
        /\ last_op'.arg = last_op.arg
        /\ grids'[last_op.arg].offset = grids[last_op.arg].offset) =>
           /\ merged'.grid = merged.grid
           /\ merged'.lons = merged.lons
           /\ merged'.lats = merged.lats]_vars

\* ---------------------------------------------------------------- bias removal

\* The mosaic cells written by the add_grid call of log entry e, and the
\* mosaic elevations in them as an array.
WrittenCells(e) == {Target(ji, e) : ji \in ValidIndices(Value(grids[e.tile]))}
WrittenValues(e) ==
    LET cells == SetToSeq(WrittenCells(e))
    IN  [k \in DOMAIN cells |-> merged.grid[cells[k][1]][cells[k][2]]]

\* C18: immediately after add_grid(tile) has written cells, the median of
\* the mosaic elevation over the cells written from the tile's finite cells
\* is 0, and each of those cells holds the lon/lat of a tile cell written to
\* it, unchanged.
C18_MedianZero ==
    (Added /\ WrittenCells(LastAdd) # {}) =>
        /\ NanMedian2(WrittenValues(LastAdd)) = Fin(0)
        /\ \A ji \in ValidIndices(Value(grids[LastAdd.tile])) :
               \E o \in ValidIndices(Value(grids[LastAdd.tile])) :
                   /\ Target(o, LastAdd) = Target(ji, LastAdd)
                   /\ HoldsCell(Target(ji, LastAdd), grids[LastAdd.tile], o)

\* ---------------------------------------------------------------- tile reads

\* The last call is a read of xc_bounds, yc_bounds or grid_xc_yc of a tile.
IsRead(call) == call.op \in {"xc_bounds", "yc_bounds", "grid_xc_yc"}

\* What a read of tile g returns when the coordinates of the file plus the
\* offset, added once, are returned.
FileRead(op, g) ==
    LET x0 == TileFiles[g.file].xc0 + g.offset[1]
        y0 == TileFiles[g.file].yc0 + g.offset[2]
    IN  CASE op = "xc_bounds" -> <<x0, x0 + (AxisLen(g, 1) - 1) * TileSpacing>>
          [] op = "yc_bounds" -> <<y0, y0 + (AxisLen(g, 2) - 1) * TileSpacing>>
          [] op = "grid_xc_yc" -> <<x0, y0>>

\* C19 as stated: a read of xc_bounds, yc_bounds or grid_xc_yc of a tile that
\* returns leaves the tile's stored coordinates as they were, and returns the
\* coordinates of the file plus the tile's offset, added once.
C19_ReadsLeaveTile ==
    [][(IsRead(last_op') /\ last_op'.error = "none") =>
           /\ grids'[last_op'.arg] = grids[last_op'.arg]
           /\ last_op'.ret = FileRead(last_op'.op, grids[last_op'.arg])]_vars

\* ---------------------------------------------------------------- coverage validation

\* C20 as stated: add_drift_correction_reference(ref) raises if and only if
\* the reference time of some tile lies outside the time span of the
\* reference trajectory, however few reference samples lie between the
\* earliest and the latest tile time.
C20_RaisesIffNotCovered ==
    (last_op # None /\ last_op.op = "add_drift_correction_reference") =>
        (last_op.error # "none" <=> ~CoverageTestBySpan(last_op.arg, grids))

\* ---------------------------------------------------------------- collections

\* An ignore_list holds at most this many entries.
MaxIgnored == 3

\* The file lists a collection is constructed from.
CollectionFiles == {<<1, 2>>, <<1, 5, 4>>, <<6, 7>>}

\* The file lists two collections are constructed from.
CollectionPairs == {<< <<1, 2>>, <<6, 7>> >>, << <<6, 7>>, <<6, 7>> >>}

\* The reference trajectories handed to a collection.
CollectionReferences ==
    { [time |-> <<0, 6>>, longitude |-> <<0, 6>>, latitude |-> <<0, 0>>],
      [time |-> <<1, 2, 3, 5>>, longitude |-> <<0, 1, 1, 0>>, latitude |-> <<0, 0, -1, 2>>],
      [time |-> <<1, 3, 5>>, longitude |-> <<0, 3, 4>>, latitude |-> <<0, -3, 0>>] }

\* The thresholds of set_maximum_dist2ref, in ticks.
MaxDists == {250, 900}

\* A fraction <<numerator, denominator>> in lowest terms.
RECURSIVE Gcd(_, _)
Gcd(a, b) == IF b = 0 THEN a ELSE Gcd(b, a % b)
Lowest(f) ==
    LET g == Gcd(IF f[1] < 0 THEN -f[1] ELSE f[1], f[2])
    IN  <<f[1] \div g, f[2] \div g>>

\* np.nanmean of a field without NaN, as a fraction.
FieldMean(field) ==
    Lowest(<<SumSeq([j \in DOMAIN field |->
                        SumSeq([i \in DOMAIN field[j] |-> Val(field[j][i])])]),
             Len(field) * Len(field[1])>>)

\* geo_inverse(grid_lon, grid_lat, ref_lon, ref_lat)[2] > max_dist, the four
\* positions being fractions and the distance the planar one between
\* positions in ticks: dlon^2 + dlat^2 > max_dist^2, with dlon = a / b and
\* dlat = c / d.
DistExceeds(grid_lon, grid_lat, ref_lon, ref_lat, max_dist) ==
    LET a == grid_lon[1] * ref_lon[2] - ref_lon[1] * grid_lon[2]
        b == grid_lon[2] * ref_lon[2]
        c == grid_lat[1] * ref_lat[2] - ref_lat[1] * grid_lat[2]
        d == grid_lat[2] * ref_lat[2]
    IN  a * a * d * d + c * c * b * b > max_dist * max_dist * b * b * d * d

\* The test `dist > max_dist` of set_maximum_dist2ref for the tile at
\* position k of gs.
TooFar(r, gs, k, max_dist) ==
    DistExceeds(FieldMean(Lons(gs[k])), FieldMean(Lats(gs[k])),
                Lowest(Interp(RefTime(gs[k]), r.time, r.longitude)),
                Lowest(Interp(RefTime(gs[k]), r.time, r.latitude)), max_dist)

\* The loop of set_maximum_dist2ref from position k on: the list after
\* self.ignore_list.append(i) for every tile that is too far, i from 0.
RECURSIVE AppendTooFar(_, _, _, _, _)
AppendTooFar(r, gs, k, max_dist, list) ==
    IF k > Len(gs) THEN list
    ELSE AppendTooFar(r, gs, k + 1, max_dist,
                      IF TooFar(r, gs, k, max_dist) THEN Append(list, k - 1) ELSE list)

CollCalled(c, op, arg, error, r) == [coll |-> c, op |-> op, arg |-> arg, error |-> error, ret |-> r]

\* ALSGridCollection(filepaths, res, ignore_list) after __init__ and
\* _read_grid_data; ignore_list names the list object handed in.
ALSGridCollection(filepaths, res, list) ==
    [grids |-> [k \in DOMAIN filepaths |-> ALSL4Grid(filepaths[k])], res |-> res,
     ignore_list |-> list, ref |-> None]

\* The list objects and the list each of n instances holds, by which of the
\* instances were constructed without an ignore_list argument: those hold
\* the default object of the signature, list 1, which is the same object
\* for every call; every other instance holds a list of its caller.
ListsOf(omitted) == [k \in 1..(1 + Cardinality({c \in DOMAIN omitted : ~omitted[c]})) |-> <<>>]
ListOf(omitted, c) ==
    IF omitted[c] THEN 1 ELSE 1 + Cardinality({d \in 1..c : ~omitted[d]})

\* The instance after a call that assigns the offsets without a coverage test.
WithReferenceUntested(coll, r) ==
    [coll EXCEPT !.ref = r,
                 !.grids = [k \in DOMAIN coll.grids |->
                              [coll.grids[k] EXCEPT !.offset = DriftOffsets(r, coll.grids)[k]]]]

\* The instance after add_drift_correction_reference(r), whether it returns
\* or raises: self.ref is assigned before the coverage test, the offsets
\* after it.
WithReference(coll, r) ==
    [coll EXCEPT !.ref = r,
                 !.grids = IF CoverageTest(r, coll.grids)
                           THEN [k \in DOMAIN coll.grids |->
                                   [coll.grids[k] EXCEPT !.offset = DriftOffsets(r, coll.grids)[k]]]
                           ELSE coll.grids]

\* One collection with no call made yet.
InitCollection ==
    /\ DemUnused /\ AlignUnused /\ PresetUnused
    /\ values_mode \in ValuesModes
    /\ grids = <<>> /\ collection_res = None /\ ignore_list = <<>> /\ ref = None
    /\ merged = None /\ added = <<>> /\ last_op = None
    /\ \E fs \in CollectionFiles, omitted \in [1..1 -> BOOLEAN] :
          /\ colls = <<ALSGridCollection(fs, TileSpacing, ListOf(omitted, 1))>>
          /\ ignore_lists = ListsOf(omitted)
    /\ coll_op = None
    /\ FreeboardUnused /\ ReaderUnused

\* Two collections, each after a drift correction that passed.
InitTwoCollections ==
    /\ DemUnused /\ AlignUnused /\ PresetUnused
    /\ values_mode \in ValuesModes
    /\ grids = <<>> /\ collection_res = None /\ ignore_list = <<>> /\ ref = None
    /\ merged = None /\ added = <<>> /\ last_op = None
    /\ \E fs \in CollectionPairs, omitted \in [1..2 -> BOOLEAN], r \in CollectionReferences :
          /\ \A c \in 1..2 : CoverageTest(r, ALSGridCollection(fs[c], TileSpacing, 1).grids)
          /\ colls = [c \in 1..2 |->
                        WithReference(ALSGridCollection(fs[c], TileSpacing, ListOf(omitted, c)), r)]
          /\ ignore_lists = ListsOf(omitted)
    /\ coll_op = None
    /\ FreeboardUnused /\ ReaderUnused

\* colls[c].add_drift_correction_reference(r)
CollAddDriftCorrectionReference ==
    \E c \in DOMAIN colls : \E r \in CollectionReferences :
        /\ colls' = [colls EXCEPT ![c] = WithReference(colls[c], r)]
        /\ coll_op' = CollCalled(c, "add_drift_correction_reference", r,
                                 IF CoverageTest(r, colls[c].grids) THEN "none" ELSE "ValueError",
                                 None)
        /\ UNCHANGED ignore_lists
        /\ UNCHANGED <<demVars, alignVars, presetVars, mosaicVars, freeboardVars, readerVars>>

\* colls[c].set_maximum_dist2ref(max_dist): _get_ref_lonlat reads ref.time,
\* which raises AttributeError while self.ref is None.
SetMaximumDist2Ref ==
    \E c \in DOMAIN colls : \E max_dist \in MaxDists :
        LET key == colls[c].ignore_list
            list == IF colls[c].ref = None THEN ignore_lists[key]
                    ELSE AppendTooFar(colls[c].ref, colls[c].grids, 1, max_dist, ignore_lists[key])
        IN  /\ Len(list) <= MaxIgnored
            /\ ignore_lists' = [ignore_lists EXCEPT ![key] = list]
            /\ coll_op' = CollCalled(c, "set_maximum_dist2ref", max_dist,
                                     IF colls[c].ref = None THEN "AttributeError" ELSE "none", None)
            /\ UNCHANGED colls
            /\ UNCHANGED <<demVars, alignVars, presetVars, mosaicVars, freeboardVars, readerVars>>

\* colls[c].get_merged_grid(): what is kept of the mosaic returned is its
\* extent and the add_grid calls that filled it.
CollGetMergedGrid ==
    \E c \in DOMAIN colls :
        \E r \in {MergedGridOf(values_mode, colls[c].grids, ignore_lists[colls[c].ignore_list],
                               colls[c].res)} :
            /\ colls' = [colls EXCEPT ![c].grids = r.grids]
            /\ WithinRange(r.grids)
            /\ coll_op' = CollCalled(c, "get_merged_grid", None, r.error,
                                     IF r.error # "none" THEN None
                                     ELSE [x_min |-> r.merged.x_min, x_max |-> r.merged.x_max,
                                           y_min |-> r.merged.y_min, y_max |-> r.merged.y_max,
                                           log |-> r.log])
            /\ UNCHANGED ignore_lists
            /\ UNCHANGED <<demVars, alignVars, presetVars, mosaicVars, freeboardVars, readerVars>>

NextCollection ==
    \/ CollAddDriftCorrectionReference
    \/ SetMaximumDist2Ref
    \/ CollGetMergedGrid

SpecCollection == InitCollection /\ [][NextCollection]_vars

NextTwoCollections ==
    \/ SetMaximumDist2Ref
    \/ CollGetMergedGrid

SpecTwoCollections == InitTwoCollections /\ [][NextTwoCollections]_vars

\* ---------------------------------------------------------------- drift abort

\* The offsets of the tiles of every collection.
Offsets(cs) == [c \in DOMAIN cs |-> [k \in DOMAIN cs[c].grids |-> cs[c].grids[k].offset]]

\* The last call was add_drift_correction_reference and it ended with error.
DriftCallEnded(op, error) ==
    op # None /\ op.op = "add_drift_correction_reference" /\ op.error = error

\* C21: drift correction aborts before any offset is applied.  A call of
\* add_drift_correction_reference that raises ValueError for its coverage
\* test leaves the offset of every tile of the collection as it was before
\* the call.
C21_AbortLeavesOffsets ==
    [][DriftCallEnded(coll_op', "ValueError") => Offsets(colls') = Offsets(colls)]_vars

\* C21 witness: a call has raised on a collection whose tiles carry the
\* offsets of an earlier call that passed.
C21_Witness ==
    /\ DriftCallEnded(coll_op, "ValueError")
    /\ \E k \in DOMAIN colls[coll_op.coll].grids :
         colls[coll_op.coll].grids[k].offset # <<0, 0>>

\* ---------------------------------------------------------------- drift offsets

\* The reference position (longitude or latitude track fp) at the reference
\* time of tile k, projected, as a fraction.
RefPosition(r, gs, k, fp) == RefProj(Interp(RefTime(gs[k]), r.time, fp))

\* The displacement of tile k relative to the first tile, in metres, as a
\* fraction <<numerator, denominator>> with a positive denominator.
RefDisplacement(r, gs, k, fp) ==
    LET v == RefPosition(r, gs, k, fp)
        v0 == RefPosition(r, gs, 1, fp)
    IN  <<v[1] * v0[2] - v0[1] * v[2], v[2] * v0[2]>>

\* An offset (in half metres) is minus the displacement d.
IsMinusDisplacement(offset, d) == offset * d[2] = -(2 * d[1])

\* An offset (in half metres) is minus the displacement d cut to whole
\* metres toward zero.
IsMinusWholeMetres(offset, d) ==
    LET t == -offset
        abs(v) == IF v < 0 THEN -v ELSE v
    IN  /\ t % 2 = 0
        /\ t * d[1] >= 0
        /\ abs(t) * d[2] <= 2 * abs(d[1])
        /\ 2 * abs(d[1]) < (abs(t) + 2) * d[2]

\* C22 as stated: after add_drift_correction_reference returns, the first
\* tile has offset (0, 0) and tile i has offset (-dx_i, -dy_i), the
\* displacement of the projected reference position at the time of tile i
\* relative to the one at the time of the first tile.
C22_OffsetIsDisplacement ==
    DriftCallEnded(coll_op, "none") =>
        LET gs == colls[coll_op.coll].grids
        IN  /\ gs[1].offset = <<0, 0>>
            /\ \A k \in DOMAIN gs :
                 /\ IsMinusDisplacement(gs[k].offset[1], RefDisplacement(coll_op.arg, gs, k, coll_op.arg.longitude))
                 /\ IsMinusDisplacement(gs[k].offset[2], RefDisplacement(coll_op.arg, gs, k, coll_op.arg.latitude))

\* C22 amended: after add_drift_correction_reference returns, the first tile
\* has offset (0, 0) and tile i has offset (-int(dx_i), -int(dy_i)): the
\* displacement is cut to whole metres toward zero before it is negated.
C22_OffsetIsWholeDisplacement ==
    DriftCallEnded(coll_op, "none") =>
        LET gs == colls[coll_op.coll].grids
        IN  /\ gs[1].offset = <<0, 0>>
            /\ \A k \in DOMAIN gs :
                 /\ IsMinusWholeMetres(gs[k].offset[1], RefDisplacement(coll_op.arg, gs, k, coll_op.arg.longitude))
                 /\ IsMinusWholeMetres(gs[k].offset[2], RefDisplacement(coll_op.arg, gs, k, coll_op.arg.latitude))

\* C22 witness: a call has returned and a tile's reference position is a
\* fraction of a metre off the first tile's, east and south.
C22_Witness ==
    /\ DriftCallEnded(coll_op, "none")
    /\ \E k \in DOMAIN colls[coll_op.coll].grids :
         LET gs == colls[coll_op.coll].grids
             dx == RefDisplacement(coll_op.arg, gs, k, coll_op.arg.longitude)
             dy == RefDisplacement(coll_op.arg, gs, k, coll_op.arg.latitude)
         IN  /\ dx[1] > 0 /\ dx[1] % dx[2] # 0
             /\ dy[1] < 0 /\ dy[1] % dy[2] # 0
             /\ gs[k].offset[1] < 0 /\ gs[k].offset[2] > 0

\* ---------------------------------------------------------------- distance filter

\* The tile at position k (from 1) is in the exclusion list.
Excluded(list, k) == \E q \in DOMAIN list : list[q] = k - 1

\* The exclusion list of collection c of cs.
IgnoreListOf(cs, lists, c) == lists[cs[c].ignore_list]

\* The last call was op on some collection and it returned.
CollReturned(call, op) == call # None /\ call.op = op /\ call.error = "none"

\* The [min, max] of a tile along an axis at its stored coordinates and offset.
TileExtent(grid, axis) ==
    <<Stored(grid, axis) + grid.offset[axis],
      Stored(grid, axis) + grid.offset[axis] + (AxisLen(grid, axis) - 1) * TileSpacing>>

\* lo and hi are the least minimum and the greatest maximum along an axis
\* of the tiles of gs that are not in list.
IsExtentOfIncluded(lo, hi, gs, list, axis) ==
    /\ \E k \in DOMAIN gs : ~Excluded(list, k) /\ TileExtent(gs[k], axis)[1] = lo
    /\ \E k \in DOMAIN gs : ~Excluded(list, k) /\ TileExtent(gs[k], axis)[2] = hi
    /\ \A k \in DOMAIN gs : ~Excluded(list, k) =>
           lo <= TileExtent(gs[k], axis)[1] /\ TileExtent(gs[k], axis)[2] <= hi

\* C23: the distance filter.  A set_maximum_dist2ref(max_dist) that returns
\* leaves every tile that is further than max_dist from the reference
\* position at its time in the exclusion list, and leaves the stored tiles
\* as they were.  get_merged_grid calls add_grid for no excluded tile and
\* reads no excluded tile, and the extent of the mosaic it returns is the
\* one of the tiles that are not excluded (stated for a build whose reads
\* do not move the stored coordinates).
C23_DistanceFilter ==
    [][/\ CollReturned(coll_op', "set_maximum_dist2ref") =>
            /\ \A k \in DOMAIN colls[coll_op'.coll].grids :
                 TooFar(colls[coll_op'.coll].ref, colls[coll_op'.coll].grids, k, coll_op'.arg)
                     => Excluded(IgnoreListOf(colls', ignore_lists', coll_op'.coll), k)
            /\ colls' = colls
       /\ (coll_op' # None /\ coll_op'.op = "get_merged_grid") =>
            /\ \A k \in DOMAIN colls[coll_op'.coll].grids :
                 Excluded(IgnoreListOf(colls, ignore_lists, coll_op'.coll), k)
                     => colls'[coll_op'.coll].grids[k] = colls[coll_op'.coll].grids[k]
            /\ [c \in DOMAIN colls |-> Len(colls'[c].grids)] = [c \in DOMAIN colls |-> Len(colls[c].grids)]
       /\ CollReturned(coll_op', "get_merged_grid") =>
            /\ \A q \in DOMAIN coll_op'.ret.log :
                 ~Excluded(IgnoreListOf(colls, ignore_lists, coll_op'.coll), coll_op'.ret.log[q].tile)
            /\ values_mode = "copy" =>
                 /\ IsExtentOfIncluded(coll_op'.ret.x_min, coll_op'.ret.x_max,
                                       colls[coll_op'.coll].grids,
                                       IgnoreListOf(colls, ignore_lists, coll_op'.coll), 1)
                 /\ IsExtentOfIncluded(coll_op'.ret.y_min, coll_op'.ret.y_max,
                                       colls[coll_op'.coll].grids,
                                       IgnoreListOf(colls, ignore_lists, coll_op'.coll), 2)
      ]_vars

\* C23 witness: get_merged_grid has returned a mosaic of a collection with
\* an excluded tile that a read would have moved (its offset is not zero
\* and reads shift the stored coordinates) and that is further from the
\* reference than the last threshold.
C23_Witness ==
    /\ CollReturned(coll_op, "get_merged_grid")
    /\ values_mode = "view"
    /\ coll_op.ret.log # <<>>
    /\ \E k \in DOMAIN colls[coll_op.coll].grids :
         /\ Excluded(IgnoreListOf(colls, ignore_lists, coll_op.coll), k)
         /\ colls[coll_op.coll].grids[k].offset # <<0, 0>>
         /\ TooFar(colls[coll_op.coll].ref, colls[coll_op.coll].grids, k, 250)

\* ---------------------------------------------------------------- independent collections

\* Collection c was constructed without an ignore_list argument.
ListOmitted(cs, c) == cs[c].ignore_list = 1

\* C24: no state is shared between collections.  When two collections were
\* both constructed without an ignore_list argument, a set_maximum_dist2ref
\* on one of them leaves the tiles that the other one includes in its
\* bounds and its merged grid as they were.
C24_IndependentLists ==
    [][CollReturned(coll_op', "set_maximum_dist2ref") =>
          \A d \in DOMAIN colls :
              (d # coll_op'.coll /\ ListOmitted(colls, d) /\ ListOmitted(colls, coll_op'.coll))
                  => IncludedGrids(colls'[d].grids, IgnoreListOf(colls', ignore_lists', d))
                       = IncludedGrids(colls[d].grids, IgnoreListOf(colls, ignore_lists, d))]_vars

\* The same, for a collection that was handed a list of its caller: no
\* call on another collection changes the tiles it includes.
OwnListIsIndependent ==
    [][CollReturned(coll_op', "set_maximum_dist2ref") =>
          \A d \in DOMAIN colls :
              (d # coll_op'.coll /\ ~ListOmitted(colls, d))
                  => IncludedGrids(colls'[d].grids, IgnoreListOf(colls', ignore_lists', d))
                       = IncludedGrids(colls[d].grids, IgnoreListOf(colls, ignore_lists, d))]_vars

\* ---------------------------------------------------------------- open water detection

\* The accepted open-water point indices (owp) of a segment, ascending, as
\* steps 1 to 5 of DetectOpenWater.apply hand them to the clustering.
OwpArrays ==
    {<<>>, <<4>>, <<0, 1, 2>>, <<0, 1, 5, 6, 7>>, <<0, 3, 4, 8>>, <<1, 2, 3, 6, 9>>}

\* The values of cfg["cluster_size"].
ClusterSizes == {1, 2}

\* The segments of a call: one owp array per segment.
SegmentLists == {<<a, b>> : a \in OwpArrays, b \in {<<0, 1, 2>>, <<0, 3, 4, 8>>, <<4>>}}

\* The pool sizes: multiprocessing.cpu_count() - mp_reserve_cpus, at least 1.
PoolSizes == {1, 2}

\* The header line of the csv file.
Header == [header |-> TRUE, segment |-> 0, points |-> <<>>]

\* python's s[a:b] for 0 <= a
Slice(s, a, b) == SubSeq(s, a + 1, IF b > Len(s) THEN Len(s) ELSE b)

\* np.append(np.where(np.diff(owp) > cluster_size)[0], owp.size)
ClusterBreaks(owp, cluster_size) ==
    LET RECURSIVE From(_)
        From(b) == IF b > Len(owp) - 2 THEN <<>>
                   ELSE (IF owp[b + 2] - owp[b + 1] > cluster_size THEN <<b>> ELSE <<>>)
                        \o From(b + 1)
    IN  Append(From(0), Len(owp))

\* The loop over cluster_breaks in DetectOpenWater.apply: cluster_info, each
\* entry being the points whose mean record it is.
RECURSIVE ClusterLoop(_, _, _)
ClusterLoop(owp, breaks, ind_start) ==
    IF breaks = <<>> THEN <<>>
    ELSE (IF ind_start # Head(breaks) THEN <<Slice(owp, ind_start, Head(breaks))>> ELSE <<>>)
         \o ClusterLoop(owp, Tail(breaks), Head(breaks) + 1)
ClusterInfo(owp, cluster_size) == ClusterLoop(owp, ClusterBreaks(owp, cluster_size), 0)

\* The line '%.15f,%.15f,%.15f,%f,%f,%f\n' % icluster of a segment.
Line(segment, icluster) == [header |-> FALSE, segment |-> segment, points |-> icluster]

\* What a file opened with mode 'a' does when several processes write to
\* it, by platform: "atomic" the offset is set to the end of the file and
\* the data written in one step (O_APPEND on a local POSIX file system),
\* "seek_write" the end of the file is looked up first and the data written
\* there in a second step (the C runtime of Windows, NFS).
AppendModes == {"atomic", "seek_write"}

\* The file after the write of the flushed line: at the end of the file,
\* or at the offset pos that was looked up, over the line that is there.
WriteLine(mode, file, pos, line) ==
    IF mode = "atomic" THEN Append(file, line)
    ELSE SubSeq(file, 1, pos) \o <<line>> \o SubSeq(file, pos + 2, Len(file))

\* The permutations of 1..n: what np.random.shuffle can leave in iters.
Shuffles(n) == {q \in [1..n -> 1..n] : \A a, b \in 1..n : q[a] = q[b] => a = b}

IdleWorker == [pc |-> "idle", task |-> 0, cluster_info |-> <<>>, done |-> 0, pos |-> 0]

\* An AlsFreeboardConversion whose export file does not exist yet or holds
\* the lines of an earlier run.
InitFreeboard ==
    /\ DemUnused /\ AlignUnused /\ PresetUnused /\ MosaicUnused /\ CollectionUnused /\ ReaderUnused
    /\ ow_call \in [use_multiprocessing : BOOLEAN, n_processes : PoolSizes,
                    cluster_size : ClusterSizes, segments : SegmentLists,
                    append : AppendModes, pc : {"start"}]
    /\ ow_pool = None
    /\ export_file \in {None, <<Header, Line(1, <<7>>)>>}

\* open_water_detection up to the fan-out: the csv file is overwritten with
\* the header, and the segments are queued, shuffled for the process pool
\* and in order for the loop in the calling process (one worker).
OpenWaterDetection ==
    /\ ow_call.pc = "start"
    /\ export_file' = <<Header>>
    /\ \E iters \in Shuffles(Len(ow_call.segments)) :
         /\ ~ow_call.use_multiprocessing => iters = [i \in 1..Len(ow_call.segments) |-> i]
         /\ ow_pool' = [queue |-> iters,
                        workers |-> [w \in 1..(IF ow_call.use_multiprocessing
                                               THEN ow_call.n_processes ELSE 1) |-> IdleWorker]]
    /\ ow_call' = [ow_call EXCEPT !.pc = "running"]
    /\ UNCHANGED <<demVars, alignVars, presetVars, mosaicVars, collectionVars, readerVars>>

\* open_water_detection_wrapper up to the export: a worker takes the next
\* segment and DetectOpenWater.apply clusters its open-water points.
Wrapper ==
    /\ ow_call.pc = "running"
    /\ \E w \in DOMAIN ow_pool.workers :
           /\ ow_pool.workers[w].pc = "idle"
           /\ ow_pool.queue # <<>>
           /\ ow_pool' = [queue |-> Tail(ow_pool.queue),
                          workers |-> [ow_pool.workers EXCEPT ![w] =
                              [pc |-> "export", task |-> Head(ow_pool.queue),
                               cluster_info |-> ClusterInfo(ow_call.segments[Head(ow_pool.queue)],
                                                            ow_call.cluster_size),
                               done |-> 0, pos |-> 0]]]
           /\ UNCHANGED <<ow_call, export_file>>
           /\ UNCHANGED <<demVars, alignVars, presetVars, mosaicVars, collectionVars, readerVars>>

\* _get_export for the next cluster of _export_open_water_clusters: a file
\* that is missing is created with the header, then the file is opened to
\* append; after the last cluster the worker is free again.
GetExport ==
    /\ ow_call.pc = "running"
    /\ \E w \in DOMAIN ow_pool.workers :
           /\ ow_pool.workers[w].pc = "export"
           /\ IF ow_pool.workers[w].done = Len(ow_pool.workers[w].cluster_info)
              THEN /\ ow_pool' = [ow_pool EXCEPT !.workers[w] = IdleWorker]
                   /\ UNCHANGED export_file
              ELSE /\ export_file' = IF export_file = None THEN <<Header>> ELSE export_file
                   /\ ow_pool' = [ow_pool EXCEPT !.workers[w].pc = "write"]
           /\ UNCHANGED ow_call
           /\ UNCHANGED <<demVars, alignVars, presetVars, mosaicVars, collectionVars, readerVars>>

\* export_file.write(...) and the first half of export_file.close() for one
\* cluster: the line is buffered, and the flush looks up the end of the file.
SeekEnd ==
    /\ ow_call.pc = "running"
    /\ \E w \in DOMAIN ow_pool.workers :
           /\ ow_pool.workers[w].pc = "write"
           /\ ow_pool' = [ow_pool EXCEPT !.workers[w].pc = "flush",
                                         !.workers[w].pos = Len(export_file)]
           /\ UNCHANGED <<ow_call, export_file>>
           /\ UNCHANGED <<demVars, alignVars, presetVars, mosaicVars, collectionVars, readerVars>>

\* The second half of export_file.close(): the line is written.
WriteCluster ==
    /\ ow_call.pc = "running"
    /\ \E w \in DOMAIN ow_pool.workers :
           /\ ow_pool.workers[w].pc = "flush"
           /\ export_file' = WriteLine(ow_call.append, export_file, ow_pool.workers[w].pos,
                                       Line(ow_pool.workers[w].task,
                                            ow_pool.workers[w].cluster_info[ow_pool.workers[w].done + 1]))
           /\ ow_pool' = [ow_pool EXCEPT !.workers[w].pc = "export",
                                         !.workers[w].done = @ + 1]
           /\ UNCHANGED ow_call
           /\ UNCHANGED <<demVars, alignVars, presetVars, mosaicVars, collectionVars, readerVars>>

\* The results are collected (or the loop has ended): every segment is done.
Join ==
    /\ ow_call.pc = "running"
    /\ ow_pool.queue = <<>>
    /\ \A w \in DOMAIN ow_pool.workers : ow_pool.workers[w].pc = "idle"
    /\ ow_call' = [ow_call EXCEPT !.pc = "done"]
    /\ UNCHANGED <<ow_pool, export_file>>
    /\ UNCHANGED <<demVars, alignVars, presetVars, mosaicVars, collectionVars, readerVars>>

NextFreeboard ==
    \/ OpenWaterDetection
    \/ Wrapper
    \/ GetExport
    \/ SeekEnd
    \/ WriteCluster
    \/ Join

SpecFreeboard == InitFreeboard /\ [][NextFreeboard]_vars

\* ---------------------------------------------------------------- worker fan-out

\* The call of open_water_detection has ended.
DetectionDone == ow_call # None /\ ow_call.pc = "done"

\* The lines that the detected clusters of every segment make.
ClusterLines ==
    UNION {{Line(s, ClusterInfo(ow_call.segments[s], ow_call.cluster_size)[c]) :
               c \in DOMAIN ClusterInfo(ow_call.segments[s], ow_call.cluster_size)} :
           s \in DOMAIN ow_call.segments}

\* The file holds the header once, as its first line, and after it exactly
\* one line per detected cluster of every segment.
HeaderAndOneLinePerCluster ==
    /\ export_file # None
    /\ export_file[1] = Header
    /\ \A k \in 2..Len(export_file) : export_file[k] # Header
    /\ \A line \in ClusterLines :
         Cardinality({k \in DOMAIN export_file : export_file[k] = line}) = 1
    /\ Len(export_file) = 1 + Cardinality(ClusterLines)

\* C25: the worker fan-out loses nothing.  When open_water_detection has
\* ended, with the segments run in a process pool or in the calling process
\* and whatever the interleaving of the workers, the common csv file holds
\* the header exactly once followed by exactly one complete line per
\* detected cluster of every segment.
C25_HeaderAndOneLinePerCluster == DetectionDone => HeaderAndOneLinePerCluster

\* The same where a write in append mode is one step: no line is lost.
AtomicAppendKeepsLines ==
    (DetectionDone /\ ow_call.append = "atomic") => HeaderAndOneLinePerCluster

\* The lines of the file are those of the segments in the order of the
\* segments, as the loop in the calling process leaves them.
LinesInSegmentOrder ==
    DetectionDone =>
        \A j, k \in DOMAIN export_file : j < k => export_file[j].segment <= export_file[k].segment

\* ---------------------------------------------------------------- open water clusters

\* The concatenation of the entries of a sequence of sequences.
RECURSIVE Flatten(_)
Flatten(ss) == IF ss = <<>> THEN <<>> ELSE Head(ss) \o Flatten(Tail(ss))

\* info splits owp into clusters wherever two consecutive indices differ by
\* more than cluster_size: every point is in exactly one cluster, in order,
\* and a cluster ends exactly where the step to the next point is larger.
IsPartitionAtBreaks(info, owp, cluster_size) ==
    /\ Flatten(info) = owp
    /\ \A c \in DOMAIN info :
         /\ info[c] # <<>>
         /\ \A q \in 1..(Len(info[c]) - 1) : info[c][q + 1] - info[c][q] <= cluster_size
    /\ \A c \in 1..(Len(info) - 1) : info[c + 1][1] - info[c][Len(info[c])] > cluster_size

\* C30: open-water clustering is a partition.  The clusters that
\* DetectOpenWater.apply hands to the export split the accepted points owp
\* wherever two consecutive indices differ by more than cluster_size, and
\* every accepted point is in exactly one cluster, the last point before a
\* break and the point of a single-point cluster included.
C30_ClustersPartition ==
    (ow_pool # None) =>
        \A w \in DOMAIN ow_pool.workers :
            ow_pool.workers[w].task # 0 =>
                IsPartitionAtBreaks(ow_pool.workers[w].cluster_info,
                                    ow_call.segments[ow_pool.workers[w].task],
                                    ow_call.cluster_size)

\* What the loop keeps: every accepted point but the last one before each
\* break.
ClustersLoseLastPoint ==
    (ow_pool # None) =>
        \A w \in DOMAIN ow_pool.workers :
            ow_pool.workers[w].task # 0 =>
                LET owp == ow_call.segments[ow_pool.workers[w].task]
                    kept == Flatten(ow_pool.workers[w].cluster_info)
                    dropped == {q \in 1..(Len(owp) - 1) :
                                   owp[q + 1] - owp[q] > ow_call.cluster_size}
                IN  {kept[q] : q \in DOMAIN kept} = {owp[q] : q \in (DOMAIN owp) \ dropped}

\* ---------------------------------------------------------------------------
\* reader: AirborneLaserScannerFile.get_data
\* ---------------------------------------------------------------------------

\* The seconds of the day that occur as line timestamps and as arguments.
MaxSeconds == 5

\* The longest file, in scan lines.
MaxScanLines == 3

IsNonDecreasing(s) == \A i \in 1..(Len(s) - 1) : s[i] <= s[i + 1]

\* The line timestamps of a file as _read_line_timestamp unpacks them: one
\* unsigned integer for each scan line, in the order of the lines. A file
\* without scan lines has none. Consecutive lines may share a second or be
\* several seconds apart.
LineTimestamps ==
    {s \in UNION {[1..n -> 1..MaxSeconds] : n \in 0..MaxScanLines} : IsNonDecreasing(s)}

\* The arguments of get_data: None when omitted, else the second of the day
\* in a tuple of its own.
SecondsArgs == {None} \cup {<<t>> : t \in 0..(MaxSeconds + 1)}

\* validate_time_range: the error it raises, "none" when it returns. The two
\* warnings are logged and change nothing.
ValidateTimeRange(line_timestamp, start, stop) ==
    LET fstart == line_timestamp[1]
        fstop == line_timestamp[Len(line_timestamp)]
    IN  IF start > stop THEN "ValueError"
        ELSE IF start > fstop \/ stop < fstart THEN "ValueError"
        ELSE "none"

\* np.where(cond)[0]: the indices (0-based) of the lines that satisfy a condition.
WhereGE(line_timestamp, t) == {i \in 0..(Len(line_timestamp) - 1) : line_timestamp[i + 1] >= t}
WhereLE(line_timestamp, t) == {i \in 0..(Len(line_timestamp) - 1) : line_timestamp[i + 1] <= t}

SetMin(S) == CHOOSE m \in S : \A k \in S : m <= k
SetMax(S) == CHOOSE m \in S : \A k \in S : m >= k

\* n_selected_lines = line_index[1] - line_index[0]
NSelectedLines(line_index) == line_index[2] - line_index[1]

\* The scan lines read: n_selected_lines lines of bytes_per_line bytes each,
\* the first one at the start byte of line line_index[0].
LinesRead(line_index, n) == [k \in 1..n |-> line_index[1] + k - 1]

GetDataResult(start_seconds, end_seconds, error, line_index, n, lines) ==
    [start_seconds |-> start_seconds, end_seconds |-> end_seconds, error |-> error,
     line_index |-> line_index, n_selected_lines |-> n, lines |-> lines]

\* get_data(start_seconds, end_seconds) on a file with the given line timestamps.
GetDataOf(line_timestamp, start_arg, end_arg) ==
    IF line_timestamp = <<>>
    THEN \* line_timestamp[0] of an empty array, in get_data or in validate_time_range
         GetDataResult(start_arg, end_arg, "IndexError", None, None, None)
    ELSE
    LET start_seconds == IF start_arg = None THEN line_timestamp[1] ELSE start_arg[1]
        end_seconds == IF end_arg = None THEN line_timestamp[Len(line_timestamp)] ELSE end_arg[1]
        error == ValidateTimeRange(line_timestamp, start_seconds, end_seconds)
    IN  IF error # "none"
        THEN GetDataResult(start_seconds, end_seconds, error, None, None, None)
        ELSE
        LET ge == WhereGE(line_timestamp, start_seconds)
            le == WhereLE(line_timestamp, end_seconds)
        IN  IF ge = {} \/ le = {}
            THEN GetDataResult(start_seconds, end_seconds, "IndexError", None, None, None)
            ELSE
            LET line_index == <<SetMin(ge), SetMax(le)>>
                n == NSelectedLines(line_index)
            IN  IF n < 0
                THEN \* ALSData: np.ndarray with a negative dimension
                     GetDataResult(start_seconds, end_seconds, "ValueError", line_index, n, None)
                ELSE GetDataResult(start_seconds, end_seconds, "none", line_index, n,
                                   LinesRead(line_index, n))

InitReader ==
    /\ DemUnused /\ AlignUnused /\ PresetUnused /\ MosaicUnused
    /\ CollectionUnused /\ FreeboardUnused
    /\ \E ts \in LineTimestamps :
        als_file = [line_timestamp |-> ts, args |-> None, ret |-> None]

GetData ==
    /\ \E start_arg \in SecondsArgs, end_arg \in SecondsArgs :
        als_file' = [als_file EXCEPT
                        !.args = <<start_arg, end_arg>>,
                        !.ret = GetDataOf(als_file.line_timestamp, start_arg, end_arg)]
    /\ UNCHANGED <<demVars, alignVars, presetVars, mosaicVars, collectionVars, freeboardVars>>

NextReader == GetData

SpecReader == InitReader /\ [][NextReader]_vars

\* ---------------------------------------------------------------------------
\* reader: the scan lines selected by a time range
\* ---------------------------------------------------------------------------

\* get_data has returned data (no error was raised).
GetDataReturned == als_file.ret # None /\ als_file.ret.error = "none"

\* The scan lines (0-based, in file order) whose timestamp is in [start, stop].
LinesInRange(line_timestamp, start, stop) ==
    {i \in 0..(Len(line_timestamp) - 1) :
        start <= line_timestamp[i + 1] /\ line_timestamp[i + 1] <= stop}

Range(s) == {s[i] : i \in DOMAIN s}

\* C26: get_data(start_seconds, end_seconds) returns exactly the scan lines
\* whose line timestamp t satisfies start_seconds <= t <= end_seconds; with
\* both arguments omitted it returns every scan line of the file, the last
\* one included.
C26_ExactlyLinesInRange ==
    GetDataReturned =>
        /\ Range(als_file.ret.lines) =
              LinesInRange(als_file.line_timestamp,
                           als_file.ret.start_seconds, als_file.ret.end_seconds)
        /\ als_file.args = <<None, None>> =>
              Len(als_file.ret.lines) = Len(als_file.line_timestamp)

\* What get_data returns instead: the lines in the range without the last of
\* them, each once and in file order.
GetDataDropsLastLine ==
    GetDataReturned =>
        LET inrange == LinesInRange(als_file.line_timestamp,
                                    als_file.ret.start_seconds, als_file.ret.end_seconds)
            lines == als_file.ret.lines
        IN  /\ inrange # {}
            /\ Range(lines) = inrange \ {SetMax(inrange)}
            /\ \A k \in 1..(Len(lines) - 1) : lines[k + 1] = lines[k] + 1

\* ---------------------------------------------------------------------------
\* reader: a time range accepted by validate_time_range
\* ---------------------------------------------------------------------------

\* validate_time_range accepted the time range of the last call.
TimeRangeAccepted ==
    /\ als_file.ret # None
    /\ als_file.line_timestamp # <<>>
    /\ ValidateTimeRange(als_file.line_timestamp,
                         als_file.ret.start_seconds, als_file.ret.end_seconds) = "none"

\* C29: for every time range that validate_time_range accepts, the line
\* selection of get_data is well defined: both index lookups find an element,
\* the first selected index is <= the last selected index, and the number of
\* selected lines is not negative.
C29_SelectionWellDefined ==
    TimeRangeAccepted =>
        /\ als_file.ret.line_index # None
        /\ als_file.ret.line_index[1] <= als_file.ret.line_index[2]
        /\ als_file.ret.n_selected_lines >= 0

\* The part that does hold: both index lookups find an element.
LookupsFindElement ==
    TimeRangeAccepted => als_file.ret.line_index # None

\* The selection is in order exactly when a line lies in the time range; an
\* accepted range that falls into a gap between two lines selects the line
\* after the gap as first and the line before it as last.
InOrderIffLineInRange ==
    TimeRangeAccepted =>
        (als_file.ret.n_selected_lines >= 0
            <=> LinesInRange(als_file.line_timestamp,
                             als_file.ret.start_seconds, als_file.ret.end_seconds) # {})

\* ---------------------------------------------------------------------------
\* gridding with the default configuration
\* ---------------------------------------------------------------------------

\* The configuration holds the default of AlsDEMCfg.__init__ for method:
\* dict(algorithm="scipy.griddata", keyw=...).
DefaultGriddata == cfg.griddata = "dict"

\* The gridding step raised NotImplementedError.  The gap filter raises the
\* same error, but only after the gridding step of the same call has gridded.
GriddingRaisedNotImplemented == outcome = "NotImplementedError" /\ grid_var = <<>>

\* The variables the gridding step has to grid.
GridVariablesOf(im) ==
    IF im = "grid" THEN {GridVariableNames[k] : k \in DOMAIN GridVariableNames}
    ELSE {"elevation"}

\* C27: with the default configuration the gridding step accepts the
\* configured gridding algorithm and grids every variable of
\* als.grid_variable_names; NotImplementedError is raised only when the
\* configured algorithm is not "scipy.griddata", which no setting of the
\* model is.
C27_DefaultGriddataAccepted ==
    /\ ~GriddingRaisedNotImplemented
    /\ (DefaultGriddata /\ Gridded) => DOMAIN grid_var = GridVariablesOf(impl)

\* Which configuration the gridding step does reject with NotImplementedError:
\* the default one, in _grid.py.
OnlyGridRejectsDefault ==
    GriddingRaisedNotImplemented => (impl = "grid" /\ DefaultGriddata)

\* demgen.py accepts the default and grids the elevation.
DemgenAcceptsDefault ==
    (impl = "demgen" /\ DefaultGriddata) =>
        /\ ~GriddingRaisedNotImplemented
        /\ Gridded => DOMAIN grid_var = GridVariablesOf(impl)

\* ---------------------------------------------------------------------------
\* add_grid index safety in get_merged_grid
\* ---------------------------------------------------------------------------

\* The last call was get_merged_grid and it built the mosaic: the bounds of
\* the included tiles could be read (a read raises ValueError on a build
\* whose coordinate arrays are not writeable, or when no tile is included).
MosaicBuilt ==
    /\ coll_op # None
    /\ coll_op.op = "get_merged_grid"
    /\ coll_op.error # "ValueError"

\* Every finite cell of the tile, shifted by the offset indices of an
\* add_grid call, is a cell of a mosaic of ny rows and nx columns.
IndicesInRange(value, yj_offset, xi_offset, ny, nx) ==
    \A ji \in ValidIndices(value) :
        /\ 0 <= ji[1] - 1 + yj_offset /\ ji[1] - 1 + yj_offset < ny
        /\ 0 <= ji[2] - 1 + xi_offset /\ ji[2] - 1 + xi_offset < nx

\* Every add_grid call of the get_merged_grid that returned was in range.
AddGridCallsInRange(call, gs, res_m) ==
    \A k \in DOMAIN call.ret.log :
        IndicesInRange(Value(gs[call.ret.log[k].tile]),
                       call.ret.log[k].yj_offset, call.ret.log[k].xi_offset,
                       AxisSamples(call.ret.y_min, call.ret.y_max, res_m),
                       AxisSamples(call.ret.x_min, call.ret.x_max, res_m))

\* C28: add_grid index safety.  For a mosaic that get_merged_grid builds from
\* the bounds of the included tiles at the tiles' resolution, no add_grid
\* call raises IndexError, and every finite cell of every included tile is
\* written at a row in 0..dims[0]-1 and a column in 0..dims[1]-1, none
\* through a negative index; a finite cell in a tile's last row or column
\* included.
C28_AddGridIndexSafe ==
    MosaicBuilt =>
        /\ coll_op.error = "none"
        /\ AddGridCallsInRange(coll_op, colls[coll_op.coll].grids, colls[coll_op.coll].res)

\* Where the reads of the bounds do not move the stored coordinates, no
\* offset index is negative, so no cell wraps around: a get_merged_grid that
\* returns has written every finite cell in range.
ReturnedWithoutWrap ==
    (MosaicBuilt /\ values_mode = "copy" /\ coll_op.error = "none") =>
        AddGridCallsInRange(coll_op, colls[coll_op.coll].grids, colls[coll_op.coll].res)

\* The greatest node of the included tiles along an axis belongs to a tile
\* cell the mosaic has no cell for: a get_merged_grid that returns has found
\* no finite cell in the last column of a tile that reaches x_max, nor in the
\* last row of a tile that reaches y_max.
LastNodeHasNoCell ==
    (MosaicBuilt /\ values_mode = "copy" /\ coll_op.error = "none") =>
        \A k \in DOMAIN coll_op.ret.log :
            LET grid == colls[coll_op.coll].grids[coll_op.ret.log[k].tile]
            IN  /\ TileExtent(grid, 1)[2] = coll_op.ret.x_max =>
                    \A ji \in ValidIndices(Value(grid)) : ji[2] < AxisLen(grid, 1)
                /\ TileExtent(grid, 2)[2] = coll_op.ret.y_max =>
                    \A ji \in ValidIndices(Value(grid)) : ji[1] < AxisLen(grid, 2)

====
